---- MODULE Spec2Model ----
(***************************************************************************)
(* Project Aegis: the claim pipeline of app.py (coordinator_loop and the   *)
(* HTTP endpoints), the maintenance scripts, the CoordinatorAgent and the  *)
(* SourceProfilerAgent, as a state machine over the datastore tables.      *)
(***************************************************************************)
EXTENDS Integers, Sequences, FiniteSets, TLC

VARIABLES
    raw,                \* raw_claims table: claim_id -> row
    nextClaimId,        \* raw_claims serial
    verified,           \* verified_claims table: verification_id -> row
    nextVerificationId, \* verified_claims serial
    logs,               \* system_logs table, in insertion order
    events,             \* events table (event ids)
    pc,                 \* coordinator_loop: phase being executed
    batch,              \* coordinator_loop: rows of the phase's query still to process
    step,               \* coordinator_loop: next operation on Head(batch)
    failures,           \* datastore operations that have raised
    cycleFailed,        \* a datastore operation raised during the current cycle
    startPending,       \* claim ids in pending_initial_analysis when the cycle started
    rpc,                \* reprocess_claim script: position
    rbatch,             \* reprocess_claim script: rows still to reset
    reprocessRuns,      \* reprocess_claim script: runs started
    models_loaded,      \* vectorizer.pkl and classifier.pkl were loaded at startup
    use_gemini,         \* InvestigatorAgent.use_gemini
    agentBatch,         \* CoordinatorAgent.run_cycle: discovered claims still to process
    apc,                \* CoordinatorAgent.start: "off", "sleep", "cycle" or "backoff"
    discovered,         \* CoordinatorAgent.run_cycle: new_claims
    processed_claims,   \* CoordinatorAgent.run_cycle: processed_claims
    routed,             \* CoordinatorAgent.process_claim called on its own: the call and its outcome
    metadata,           \* SourceProfilerAgent: the metadata being scored
    score,              \* SourceProfilerAgent: the returned score (<<>> before the call)
    case_file,          \* Investigator: the case file being analysed
    investigation,      \* Investigator: the results of the two mock implementations (<<>> before the call)
    herald_report,\* Herald: the report it is called with
    alert,              \* Herald: the outcome of the call (<<>> before the call)
    memory_cache,       \* CacheManager: the in-memory store, key -> value
    use_redis,          \* CacheManager.use_redis
    redis_client,       \* CacheManager.redis_client is not None
    redis,              \* the Redis server: its keys and its hit and miss counters
    calls,              \* CacheManager: the calls made so far, with what each returned
    supabase_client,    \* gateway: the datastore client, or NoClient when it was not initialized
    http_response,      \* gateway: the answer to the last HTTP request (<<>> before the first)
    active_connections, \* ConnectionManager: the registered sockets, in order
    nextSocket,         \* the next dashboard socket to connect
    ws_handler,         \* websocket_endpoint of each socket: "accepting", "serving", "exited"
    bpc,                \* broadcast: "idle", "sending", "returned" or "raised"
    message,            \* broadcast: its argument
    snapshot,           \* broadcast: the copy of the list it iterates over
    pending,            \* broadcast: the part of the copy still to visit
    sent,               \* broadcast: the sends it has attempted, with their outcome
    construction,       \* InvestigatorAgent: what __init__ was given and met
    tasks,              \* InvestigatorAgent: the number of process_task calls made
    model_calls,        \* InvestigatorAgent: the number of calls sent to the model
    task_result,        \* InvestigatorAgent: the last process_task call and its outcome
    lookups,            \* FactCheckDatabases: the last check_all_databases call (<<>> before)
    analyst_models,     \* AnalystAgent: how the two loads went, vectorizer and classifier
    analyses,           \* AnalystAgent: the last process_task call (<<>> before)
    cleanup             \* cleanup_database script: its position and its local variables

dbVars == <<raw, nextClaimId, verified, nextVerificationId, logs, events>>
loopVars == <<pc, batch, step, failures, cycleFailed, startPending>>
scriptVars == <<rpc, rbatch, reprocessRuns>>
agentVars ==
    <<models_loaded, use_gemini, agentBatch, apc, discovered, processed_claims,
      routed>>
profilerVars == <<metadata, score>>
investigatorVars == <<case_file, investigation>>
heraldVars == <<herald_report, alert>>
cacheVars == <<memory_cache, calls, use_redis, redis_client, redis>>
gatewayVars == <<supabase_client, http_response>>
socketVars == <<active_connections, nextSocket, ws_handler>>
broadcastVars == <<bpc, message, snapshot, pending, sent>>
taskVars == <<construction, tasks, model_calls, task_result>>
toolVars == <<lookups, analyst_models, analyses, cleanup>>
unitVars ==
    <<investigatorVars, heraldVars, cacheVars, gatewayVars, socketVars, broadcastVars,
      taskVars, toolVars>>
vars == <<dbVars, loopVars, scriptVars, agentVars, profilerVars, unitVars>>

(***************************************************************************)
(* Python floats.  A binary64 value v with 0 <= v < 2 is held exactly as   *)
(* the pair <<hi, lo>> with v = (hi * 2^28 + lo) * 2^-56; every value the  *)
(* pipeline computes is a multiple of 2^-56.  An absent (NULL / None)      *)
(* score is the empty tuple.                                               *)
(***************************************************************************)
Limb == 2^28

F_0_0 == <<0, 0>>
F_0_05 == <<13421772, 214748365>>
F_0_1 == <<26843545, 161061274>>
F_0_2 == <<53687091, 53687092>>
F_0_25 == <<67108864, 0>>
F_0_3 == <<80530636, 214748364>>
F_0_4 == <<107374182, 107374184>>
F_0_5 == <<134217728, 0>>
F_0_6 == <<161061273, 161061272>>
F_0_7 == <<187904819, 53687088>>
F_0_8 == <<214748364, 214748368>>
F_0_9 == <<241591910, 107374184>>
F_0_95 == <<255013683, 53687088>>
F_1_0 == <<268435456, 0>>
F_0_29999999999999993 == <<80530636, 214748360>>
F_0_30000000000000004 == <<80530636, 214748368>>
F_0_6999999999999998 == <<187904819, 53687080>>
F_0_7000000000000001 == <<187904819, 53687096>>

FLt(a, b) == a[1] < b[1] \/ (a[1] = b[1] /\ a[2] < b[2])
FGt(a, b) == FLt(b, a)
FLe(a, b) == ~FLt(b, a)
FMin(a, b) == IF FLt(b, a) THEN b ELSE a
FMax(a, b) == IF FGt(b, a) THEN b ELSE a

\* carry of the low limb into the high limb
FNorm(hi, lo) ==
    IF lo >= Limb THEN <<hi + 1, lo - Limb>>
    ELSE IF lo < 0 THEN <<hi - 1, lo + Limb>>
    ELSE <<hi, lo>>

\* units of 2^-56 in one ulp of a value whose high limb is hi (53-bit significand)
FQuantum(hi) ==
    IF hi >= 268435456 THEN 16
    ELSE IF hi >= 134217728 THEN 8
    ELSE IF hi >= 67108864 THEN 4
    ELSE IF hi >= 33554432 THEN 2
    ELSE 1

\* round to nearest binary64, ties to even
FRound(x) ==
    LET q == FQuantum(x[1])
        r == x[2] % q
        down == x[2] - r
        up == IF 2 * r > q THEN TRUE
              ELSE IF 2 * r < q THEN FALSE
              ELSE (down \div q) % 2 = 1
    IN  IF r = 0 THEN x
        ELSE IF up THEN FNorm(x[1], down + q)
        ELSE <<x[1], down>>

\* each operand is evaluated once
FAdd(a, b) ==
    CHOOSE r \in {FRound(x) : x \in {FNorm(u[1] + v[1], u[2] + v[2]) : u \in {a}, v \in {b}}} : TRUE
\* used only where a >= b
FSub(a, b) ==
    CHOOSE r \in {FRound(x) : x \in {FNorm(u[1] - v[1], u[2] - v[2]) : u \in {a}, v \in {b}}} : TRUE

(***************************************************************************)
(* SourceProfilerAgent.calculate_source_score                              *)
(***************************************************************************)
MetadataKeys == {"account_age_days", "followers", "following", "is_verified"}

\* dict.get(key, default)
Get(d, key, default) == IF key \in DOMAIN d THEN d[key] ELSE default

\* the adjustments with the follower-count bonus inside the following > 0 block
source_score_sum_nested_bonus(md) ==
    LET account_age_days == Get(md, "account_age_days", 0)
        followers == Get(md, "followers", 0)
        following == Get(md, "following", 0)
        is_verified == Get(md, "is_verified", FALSE)
        s0 == F_0_5
        s1 == IF is_verified THEN FAdd(s0, F_0_4) ELSE s0
        s2 == IF account_age_days < 30 THEN FSub(s1, F_0_25)
              ELSE IF account_age_days > 365 THEN FAdd(s1, F_0_1)
              ELSE s1
        s3 == IF following > 0 /\ followers > following * 5
              THEN FAdd(s2, F_0_1) ELSE s2
        s4 == IF following > 0 /\ following > followers * 10 /\ followers < 1000
              THEN FSub(s3, F_0_2) ELSE s3
        s5 == IF following > 0 /\ followers > 1000000 THEN FAdd(s4, F_0_1) ELSE s4
    IN  s5

\* lines 36-81: the additive adjustments, before clamping
source_score_sum(md) ==
    LET account_age_days == Get(md, "account_age_days", 0)
        followers == Get(md, "followers", 0)
        following == Get(md, "following", 0)
        is_verified == Get(md, "is_verified", FALSE)
        s0 == F_0_5
        s1 == IF is_verified THEN FAdd(s0, F_0_4) ELSE s0
        s2 == IF account_age_days < 30 THEN FSub(s1, F_0_25)
              ELSE IF account_age_days > 365 THEN FAdd(s1, F_0_1)
              ELSE s1
        s3 == IF following > 0 /\ followers > following * 5
              THEN FAdd(s2, F_0_1) ELSE s2
        s4 == IF following > 0 /\ following > followers * 10 /\ followers < 1000
              THEN FSub(s3, F_0_2) ELSE s3
        s5 == IF followers > 1000000 THEN FAdd(s4, F_0_1) ELSE s4
    IN  s5

\* the score without line 86
calculate_source_score_unclamped(md) == source_score_sum(md)

\* lines 36-91
calculate_source_score(md) == FMax(F_0_0, FMin(F_1_0, source_score_sum(md)))

(***************************************************************************)
(* Bounds                                                                  *)
(***************************************************************************)
MaxClaims == 2      \* rows ever inserted into raw_claims
MaxFailures == 1    \* datastore operations that raise
MaxReprocess == 1   \* runs of the reprocess_claim script

(***************************************************************************)
(* Text: a string is a sequence of characters where the code inspects it.  *)
(***************************************************************************)
LowerChar(ch) ==
    CASE ch = "N" -> "n" [] ch = "O" -> "o" [] ch = "T" -> "t"
      [] ch = "F" -> "f" [] ch = "A" -> "a" [] ch = "L" -> "l"
      [] ch = "S" -> "s" [] ch = "E" -> "e" [] ch = "K" -> "k"
      [] ch = "Y" -> "y"
      [] OTHER -> ch

\* str.lower()
Lower(s) == [i \in 1..Len(s) |-> LowerChar(s[i])]

\* sub in s
Contains(sub, s) ==
    \E i \in 0..(Len(s) - Len(sub)) : \A j \in 1..Len(sub) : s[i + j] = sub[j]

(***************************************************************************)
(* JSON columns.  A stored text column is NULL, text that does not parse,  *)
(* or the serialization of an object; json.dumps / json.loads of the       *)
(* objects used here (strings, integers, booleans, lists) round-trip.      *)
(***************************************************************************)
JsonNull == [kind |-> "null"]
JsonCorrupt == [kind |-> "corrupt"]
json_dumps(obj) == [kind |-> "json", obj |-> obj]
json_parses(j) == j.kind = "json"

EmptyDict == <<>>

(***************************************************************************)
(* scout_agent (app.py) / ScoutAgent.process_task: the fixed sample claims *)
(***************************************************************************)
QuakeText == "Breaking: Major earthquake hits city center!"
WaterText == "Scientists confirm that drinking water cures all forms of cancer"
TaxText == "New government policy will eliminate all taxes starting next month"
FlatText == "The Earth is flat"

QuakeMeta == [account_age_days |-> 15, followers |-> 50, following |-> 800, is_verified |-> FALSE]
WaterMeta == [account_age_days |-> 1825, followers |-> 2500000, following |-> 150, is_verified |-> TRUE]
TaxMeta == [account_age_days |-> 180, followers |-> 5000, following |-> 800, is_verified |-> FALSE]

scout_agent ==
    << [claim_text |-> QuakeText, source_metadata_json |-> json_dumps(QuakeMeta)],
       [claim_text |-> WaterText, source_metadata_json |-> json_dumps(WaterMeta)],
       [claim_text |-> TaxText, source_metadata_json |-> json_dumps(TaxMeta)] >>

\* request bodies of POST /seed-demo-claim
DemoClaims ==
    { [claim_text |-> FlatText, source_metadata_json |-> JsonCorrupt],
      [claim_text |-> TaxText, source_metadata_json |-> json_dumps(WaterMeta)] }

(***************************************************************************)
(* External services, as fixed oracles on the claim text                   *)
(***************************************************************************)
\* classifier.predict_proba(vectorizer.transform([text]))[0][0]
predict_proba(text) ==
    CASE text = QuakeText -> F_0_95
      [] text = WaterText -> F_0_95
      [] text = TaxText -> F_0_1
      [] OTHER -> F_0_95

\* gather_evidence(claim_text): reference summary and web snippets
gather_evidence(text) ==
    CASE text = QuakeText ->
            [wikipedia_summary |-> <<"N", "o", "t", " ", "s", "o">>, web_snippets |-> <<"s1">>]
      [] text = TaxText ->
            [wikipedia_summary |-> <<>>, web_snippets |-> <<>>]
      [] OTHER ->
            [wikipedia_summary |-> <<"r", "o", "u", "n", "d">>, web_snippets |-> <<"s1", "s2">>]

(***************************************************************************)
(* Agent functions of app.py                                               *)
(***************************************************************************)
\* analyst_agent(claim_text)
analyst_agent(text) ==
    IF ~models_loaded THEN F_0_5 ELSE predict_proba(text)

\* lines 315-321: json.loads + calculate_source_score, 0.5 on any exception
loop_source_score(source_metadata_json) ==
    IF json_parses(source_metadata_json)
    THEN calculate_source_score(source_metadata_json.obj)
    ELSE F_0_5

\* investigator_agent(case_file): the mock verdict
investigator_agent_inclusive(text_suspicion_score, source_credibility_score) ==
    IF FLe(F_0_8, text_suspicion_score) /\ FLe(source_credibility_score, F_0_3)
    THEN [verdict |-> "False", confidence |-> F_0_9,
          reasoning |-> "High suspicion score and low source credibility indicate misinformation."]
    ELSE IF FLe(text_suspicion_score, F_0_3) /\ FLe(F_0_7, source_credibility_score)
    THEN [verdict |-> "True", confidence |-> F_0_8,
          reasoning |-> "Low suspicion score and high source credibility suggest authentic information."]
    ELSE [verdict |-> "Misleading", confidence |-> F_0_6,
          reasoning |-> "Mixed indicators require further investigation for complete accuracy."]
investigator_agent(text_suspicion_score, source_credibility_score) ==
    IF FGt(text_suspicion_score, F_0_8) /\ FLt(source_credibility_score, F_0_3)
    THEN [verdict |-> "False", confidence |-> F_0_9,
          reasoning |-> "High suspicion score and low source credibility indicate misinformation."]
    ELSE IF FLt(text_suspicion_score, F_0_3) /\ FGt(source_credibility_score, F_0_7)
    THEN [verdict |-> "True", confidence |-> F_0_8,
          reasoning |-> "Low suspicion score and high source credibility suggest authentic information."]
    ELSE [verdict |-> "Misleading", confidence |-> F_0_6,
          reasoning |-> "Mixed indicators require further investigation for complete accuracy."]

(***************************************************************************)
(* Datastore tables                                                        *)
(***************************************************************************)
Statuses ==
    {"pending_initial_analysis", "pending_fusion_decision", "archived",
     "pending_final_decision", "resolved_by_fusion", "escalated_to_investigator",
     "resolved_by_investigator"}

\* the row inserted by discovery and by POST /seed-demo-claim
NewRawClaim_last_event(claim, via, event_id) ==
    [event_id |-> IF events # <<>> THEN events[Len(events)] ELSE event_id,
     claim_text |-> claim.claim_text,
     source_metadata_json |-> claim.source_metadata_json,
     text_suspicion_score |-> <<>>,
     source_credibility_score |-> <<>>,
     research_dossier_json |-> JsonNull,
     status |-> "pending_initial_analysis",
     via |-> via]
NewRawClaim(claim, via, event_id) ==
    [event_id |-> event_id,
     claim_text |-> claim.claim_text,
     source_metadata_json |-> claim.source_metadata_json,
     text_suspicion_score |-> <<>>,
     source_credibility_score |-> <<>>,
     research_dossier_json |-> JsonNull,
     status |-> "pending_initial_analysis",
     via |-> via]

\* table(...).insert(row): the serial key is assigned by the datastore
Insert(table, id, row) == [c \in DOMAIN table \cup {id} |-> IF c = id THEN row ELSE table[c]]

RECURSIVE InOrder(_)
InOrder(ids) ==
    IF ids = {} THEN <<>>
    ELSE LET m == CHOOSE x \in ids : \A y \in ids : x <= y
         IN  <<m>> \o InOrder(ids \ {m})

\* a select that does not see the rows the initial analysis of this cycle advanced
SelectByStatus_before_cycle(st) ==
    LET ids == InOrder({c \in DOMAIN raw :
                          /\ raw[c].status = st
                          /\ st # "pending_initial_analysis" => c \notin startPending})
    IN  [i \in 1..Len(ids) |-> [claim_id |-> ids[i], row |-> raw[ids[i]]]]

\* table("raw_claims").select("*").eq("status", st): snapshots, in key order
SelectByStatus(st) ==
    LET ids == InOrder({c \in DOMAIN raw : raw[c].status = st})
    IN  [i \in 1..Len(ids) |-> [claim_id |-> ids[i], row |-> raw[ids[i]]]]

\* an update that sends the claim back to the fusion decision
UpdateStatus_requeue(c, st) ==
    IF c \in DOMAIN raw THEN [raw EXCEPT ![c].status = "pending_fusion_decision"] ELSE raw

\* table("raw_claims").update({"status": st}).eq("claim_id", c)
UpdateStatus(c, st) ==
    IF c \in DOMAIN raw THEN [raw EXCEPT ![c].status = st] ELSE raw

LogEntry(msg, claim_id, claim_text) ==
    [msg |-> msg, claim_id |-> claim_id, claim_text |-> claim_text]

(***************************************************************************)
(* coordinator_loop                                                        *)
(***************************************************************************)
\* lines 398-406: the parsed dossier, {} when json.loads raises
ParseDossier(research_dossier_json) ==
    IF json_parses(research_dossier_json) THEN research_dossier_json.obj ELSE EmptyDict

\* the conclusiveness test without .lower()
is_conclusive_case_sensitive(research_dossier) ==
    LET wikipedia_summary == Get(research_dossier, "wikipedia_summary", <<>>)
        web_snippets == Get(research_dossier, "web_snippets", <<>>)
    IN  /\ wikipedia_summary # <<>>
        /\ \/ Contains(<<"n", "o", "t">>, wikipedia_summary)
           \/ Contains(<<"f", "a", "l", "s", "e">>, wikipedia_summary)
        /\ Len(web_snippets) > 0

\* lines 409-418
is_conclusive(research_dossier) ==
    LET wikipedia_summary == Get(research_dossier, "wikipedia_summary", <<>>)
        web_snippets == Get(research_dossier, "web_snippets", <<>>)
    IN  /\ wikipedia_summary # <<>>
        /\ \/ Contains(<<"n", "o", "t">>, Lower(wikipedia_summary))
           \/ Contains(<<"f", "a", "l", "s", "e">>, Lower(wikipedia_summary))
        /\ Len(web_snippets) > 0

\* the archive test with <= 0.2 and >= 0.8
ShouldArchive_inclusive(text_suspicion_score, source_credibility_score) ==
    FLe(text_suspicion_score, F_0_2) /\ FLe(F_0_8, source_credibility_score)

\* line 352: the archive test of the fusion decision
ShouldArchive(text_suspicion_score, source_credibility_score) ==
    FLt(text_suspicion_score, F_0_2) /\ FGt(source_credibility_score, F_0_8)

NextPhase(p) ==
    CASE p = "discovery" -> "initial"
      [] p = "initial" -> "fusion"
      [] p = "fusion" -> "final"
      [] p = "final" -> "expert"
      [] p = "expert" -> "sleep"

\* the first operation the phase performs on a row of its query
FirstStep(p, snap) ==
    CASE p = "discovery" -> "insert"
      [] p = "initial" -> "update"
      [] p = "fusion" -> "update"
      [] p = "final" ->
            IF is_conclusive(ParseDossier(snap.row.research_dossier_json))
            THEN "insert_verified" ELSE "update"
      [] p = "expert" -> "insert_verified"

\* leave phase p: the next phase starts with its query
LeavePhase(p) ==
    /\ pc' = NextPhase(p)
    /\ batch' = <<>>
    /\ step' = IF p = "expert" THEN "none" ELSE "query"

\* go on with the rows still to process, or leave the phase after the last
Continue(p, rest) ==
    IF rest = <<>> THEN LeavePhase(p)
    ELSE /\ pc' = p
         /\ batch' = rest
         /\ step' = FirstStep(p, Head(rest))

\* bookkeeping of the current cycle; nothing is kept once the loop sleeps again
Ghosts(raised) ==
    /\ cycleFailed' = IF pc' = "sleep" THEN FALSE ELSE (cycleFailed \/ raised)
    /\ startPending' = IF pc' = "sleep" THEN {} ELSE startPending

\* lines 262-269: the sleep ends, scout_agent() returns the sample claims
\* the value of the global supabase_client: None (line 64), or the client
\* startup_event created (line 550)
NoClient == "None"
Client == "Client"

\* lines 250-258: the event the loop tags its claims with
default_event_id == IF events # <<>> THEN events[1] ELSE 2

Wake ==
    /\ pc = "sleep"
    /\ supabase_client # NoClient
    /\ cycleFailed' = FALSE
    /\ startPending' = {c \in DOMAIN raw : raw[c].status = "pending_initial_analysis"}
    /\ Continue("discovery", scout_agent)
    /\ UNCHANGED <<dbVars, failures, scriptVars, agentVars, profilerVars, unitVars>>

\* line 282
DiscoveryInsert ==
    /\ pc = "discovery" /\ step = "insert"
    /\ nextClaimId <= MaxClaims
    /\ raw' = Insert(raw, nextClaimId, NewRawClaim(Head(batch), "scout", default_event_id))
    /\ nextClaimId' = nextClaimId + 1
    /\ step' = "log"
    /\ UNCHANGED <<verified, nextVerificationId, logs, events, pc, batch, failures, scriptVars, agentVars, profilerVars, unitVars>>
    /\ Ghosts(FALSE)

\* the table holds MaxClaims rows: the claim is passed over
DiscoveryCapped ==
    /\ pc = "discovery" /\ step = "insert"
    /\ nextClaimId > MaxClaims
    /\ Continue("discovery", Tail(batch))
    /\ UNCHANGED <<dbVars, failures, scriptVars, agentVars, profilerVars, unitVars>>
    /\ Ghosts(FALSE)

\* line 290
DiscoveryLog ==
    /\ pc = "discovery" /\ step = "log"
    /\ logs' = Append(logs, LogEntry("discovered", 0, Head(batch).claim_text))
    /\ Continue("discovery", Tail(batch))
    /\ UNCHANGED <<raw, nextClaimId, verified, nextVerificationId, events, failures, scriptVars, agentVars, profilerVars, unitVars>>
    /\ Ghosts(FALSE)

\* the select of a phase (lines 300, 340, 393, 473)
Query(p, st) ==
    /\ pc = p /\ step = "query"
    /\ Continue(p, SelectByStatus(st))
    /\ UNCHANGED <<dbVars, failures, scriptVars, agentVars, profilerVars, unitVars>>
    /\ Ghosts(FALSE)

InitialQuery == Query("initial", "pending_initial_analysis")
FusionQuery == Query("fusion", "pending_fusion_decision")
FinalQuery == Query("final", "pending_final_decision")
ExpertQuery == Query("expert", "escalated_to_investigator")

\* an initial analysis that stores the scores and leaves the status
InitialUpdate_scores_only ==
    /\ pc = "initial" /\ step = "update"
    /\ LET claim == Head(batch)
           text_suspicion_score == analyst_agent(claim.row.claim_text)
           source_credibility_score == loop_source_score(claim.row.source_metadata_json)
       IN  raw' = IF claim.claim_id \in DOMAIN raw
                  THEN [raw EXCEPT ![claim.claim_id].text_suspicion_score = text_suspicion_score,
                                   ![claim.claim_id].source_credibility_score = source_credibility_score]
                  ELSE raw
    /\ Continue("initial", Tail(batch))
    /\ UNCHANGED <<nextClaimId, verified, nextVerificationId, logs, events, failures, scriptVars, agentVars, profilerVars, unitVars>>
    /\ Ghosts(FALSE)

\* lines 304-331
InitialUpdate ==
    /\ pc = "initial" /\ step = "update"
    /\ LET claim == Head(batch)
           text_suspicion_score == analyst_agent(claim.row.claim_text)
           source_credibility_score == loop_source_score(claim.row.source_metadata_json)
       IN  raw' = IF claim.claim_id \in DOMAIN raw
                  THEN [raw EXCEPT ![claim.claim_id].text_suspicion_score = text_suspicion_score,
                                   ![claim.claim_id].source_credibility_score = source_credibility_score,
                                   ![claim.claim_id].status = "pending_fusion_decision"]
                  ELSE raw
    /\ Continue("initial", Tail(batch))
    /\ UNCHANGED <<nextClaimId, verified, nextVerificationId, logs, events, failures, scriptVars, agentVars, profilerVars, unitVars>>
    /\ Ghosts(FALSE)

\* lines 344-356 and 364-377
FusionUpdate ==
    /\ pc = "fusion" /\ step = "update"
    /\ LET claim == Head(batch)
           text_suspicion_score == claim.row.text_suspicion_score
           source_credibility_score == claim.row.source_credibility_score
       IN  IF text_suspicion_score = <<>> \/ source_credibility_score = <<>>
           THEN \* line 349: formatting None raises; the phase handler ends the phase
                /\ LeavePhase("fusion")
                /\ raw' = raw
           ELSE /\ step' = "log"
                /\ UNCHANGED <<pc, batch>>
                /\ IF ShouldArchive(text_suspicion_score, source_credibility_score)
                   THEN raw' = UpdateStatus(claim.claim_id, "archived")
                   ELSE raw' = IF claim.claim_id \in DOMAIN raw
                               THEN [raw EXCEPT
                                       ![claim.claim_id].research_dossier_json =
                                           json_dumps(gather_evidence(claim.row.claim_text)),
                                       ![claim.claim_id].status = "pending_final_decision"]
                               ELSE raw
    /\ UNCHANGED <<nextClaimId, verified, nextVerificationId, logs, events, failures, scriptVars, agentVars, profilerVars, unitVars>>
    /\ Ghosts(FALSE)

\* lines 358-362 and 379-383
FusionLog ==
    /\ pc = "fusion" /\ step = "log"
    /\ LET claim == Head(batch)
       IN  logs' = Append(logs,
                IF ShouldArchive(claim.row.text_suspicion_score, claim.row.source_credibility_score)
                THEN LogEntry("archived", claim.claim_id, "")
                ELSE LogEntry("escalated_research", claim.claim_id, ""))
    /\ Continue("fusion", Tail(batch))
    /\ UNCHANGED <<raw, nextClaimId, verified, nextVerificationId, events, failures, scriptVars, agentVars, profilerVars, unitVars>>
    /\ Ghosts(FALSE)

\* lines 430-438
FinalInsertVerified ==
    /\ pc = "final" /\ step = "insert_verified"
    /\ verified' = Insert(verified, nextVerificationId,
            [raw_claim_id |-> Head(batch).claim_id,
             verification_status |-> "False",
             explanation |-> "Wikipedia and web search results strongly contradict the claim"])
    /\ nextVerificationId' = nextVerificationId + 1
    /\ step' = "update"
    /\ UNCHANGED <<raw, nextClaimId, logs, events, pc, batch, failures, scriptVars, agentVars, profilerVars, unitVars>>
    /\ Ghosts(FALSE)

\* lines 441-444 and 454-457
FinalUpdate ==
    /\ pc = "final" /\ step = "update"
    /\ LET claim == Head(batch)
       IN  raw' = UpdateStatus(claim.claim_id,
                IF is_conclusive(ParseDossier(claim.row.research_dossier_json))
                THEN "resolved_by_fusion" ELSE "escalated_to_investigator")
    /\ step' = "log"
    /\ UNCHANGED <<nextClaimId, verified, nextVerificationId, logs, events, pc, batch, failures, scriptVars, agentVars, profilerVars, unitVars>>
    /\ Ghosts(FALSE)

\* lines 447-450 and 460-463
FinalLog ==
    /\ pc = "final" /\ step = "log"
    /\ LET claim == Head(batch)
       IN  logs' = Append(logs,
                IF is_conclusive(ParseDossier(claim.row.research_dossier_json))
                THEN LogEntry("resolved_by_fusion", claim.claim_id, "")
                ELSE LogEntry("escalated_to_investigator", claim.claim_id, ""))
    /\ Continue("final", Tail(batch))
    /\ UNCHANGED <<raw, nextClaimId, verified, nextVerificationId, events, failures, scriptVars, agentVars, profilerVars, unitVars>>
    /\ Ghosts(FALSE)

\* lines 477-522
ExpertInsertVerified ==
    /\ pc = "expert" /\ step = "insert_verified"
    /\ LET claim == Head(batch)
           text_suspicion_score == claim.row.text_suspicion_score
           source_credibility_score == claim.row.source_credibility_score
       IN  IF text_suspicion_score = <<>> \/ source_credibility_score = <<>>
           THEN \* line 174: formatting None raises; the phase handler ends the phase
                /\ LeavePhase("expert")
                /\ UNCHANGED <<verified, nextVerificationId>>
           ELSE LET investigator_report ==
                        investigator_agent(text_suspicion_score, source_credibility_score)
                IN  /\ verified' = Insert(verified, nextVerificationId,
                            [raw_claim_id |-> claim.claim_id,
                             verification_status |-> investigator_report.verdict,
                             explanation |-> investigator_report.reasoning])
                    /\ nextVerificationId' = nextVerificationId + 1
                    /\ step' = "update"
                    /\ UNCHANGED <<pc, batch>>
    /\ UNCHANGED <<raw, nextClaimId, logs, events, failures, scriptVars, agentVars, profilerVars, unitVars>>
    /\ Ghosts(FALSE)

\* lines 526-529
ExpertUpdate ==
    /\ pc = "expert" /\ step = "update"
    /\ raw' = UpdateStatus(Head(batch).claim_id, "resolved_by_investigator")
    /\ Continue("expert", Tail(batch))
    /\ UNCHANGED <<nextClaimId, verified, nextVerificationId, logs, events, failures, scriptVars, agentVars, profilerVars, unitVars>>
    /\ Ghosts(FALSE)

\* the points at which coordinator_loop leaves the event loop to other tasks:
\* its two sleeps (lines 263, 537), or it is not running
LoopSuspended == pc \in {"sleep", "backoff", "off"}

\* a loop whose handler marks the claim it was working on as failed
DatastoreRaises_marks_failed ==
    /\ ~LoopSuspended
    /\ failures < MaxFailures
    /\ failures' = failures + 1
    /\ IF pc = "discovery" THEN Continue("discovery", Tail(batch)) ELSE LeavePhase(pc)
    /\ raw' = IF pc # "discovery" /\ batch # <<>>
              THEN UpdateStatus(Head(batch).claim_id, "failed")
              ELSE raw
    /\ UNCHANGED <<nextClaimId, verified, nextVerificationId, logs, events,
                   scriptVars, agentVars, profilerVars, unitVars>>
    /\ Ghosts(TRUE)

\* a loop in which the exception of a phase is not caught before the handler
\* of the cycle: the cycle is over
DatastoreRaises_aborts_cycle ==
    /\ ~LoopSuspended
    /\ failures < MaxFailures
    /\ failures' = failures + 1
    /\ pc' = "sleep"
    /\ batch' = <<>>
    /\ step' = "none"
    /\ UNCHANGED <<dbVars, scriptVars, agentVars, profilerVars, unitVars>>
    /\ Ghosts(TRUE)

\* the datastore operation about to run raises: discovery goes on with the
\* next claim (line 293), any other phase is ended by its handler
\* (lines 333, 386, 466, 532)
DatastoreRaises ==
    /\ ~LoopSuspended
    /\ failures < MaxFailures
    /\ failures' = failures + 1
    /\ IF pc = "discovery" THEN Continue("discovery", Tail(batch)) ELSE LeavePhase(pc)
    /\ UNCHANGED <<dbVars, scriptVars, agentVars, profilerVars, unitVars>>
    /\ Ghosts(TRUE)

\* a loop without the handler of lines 535-537: the exception ends the task
LoopRaises_propagates ==
    /\ pc = "sleep"
    /\ supabase_client # NoClient
    /\ failures < MaxFailures
    /\ failures' = failures + 1
    /\ pc' = "off"
    /\ UNCHANGED <<dbVars, batch, step, cycleFailed, startPending,
                   scriptVars, agentVars, profilerVars, unitVars>>

\* lines 263-269 and 535-537: after the sleep a statement that is in no
\* phase handler raises (the call of scout_agent, line 269); the handler of
\* the loop logs and starts the 5-second sleep
LoopRaises ==
    /\ pc = "sleep"
    /\ supabase_client # NoClient
    /\ failures < MaxFailures
    /\ failures' = failures + 1
    /\ pc' = "backoff"
    /\ UNCHANGED <<dbVars, batch, step, cycleFailed, startPending,
                   scriptVars, agentVars, profilerVars, unitVars>>

\* line 537: the 5-second sleep is over; back to line 263
Backoff ==
    /\ pc = "backoff"
    /\ pc' = "sleep"
    /\ UNCHANGED <<dbVars, batch, step, failures, cycleFailed, startPending,
                   scriptVars, agentVars, profilerVars, unitVars>>

(***************************************************************************)
(* POST /seed-demo-claim                                                   *)
(***************************************************************************)
SeedOutcomes == {"ok", "events_raises", "insert_raises", "log_raises"}

\* what the handler returns
SeedSuccess(claim_id) == [status |-> "success", error |-> "", claim_id |-> claim_id]
SeedError(detail) == [status |-> "", error |-> detail, claim_id |-> 0]

\* lines 712-746: the tables the handler leaves and the dict it returns
seed_demo_claim_handler(claim, outcome) ==
    IF supabase_client = NoClient
    THEN [raw |-> raw, nextClaimId |-> nextClaimId, logs |-> logs,
          returned |-> SeedError("Supabase client not initialized")]
    ELSE IF outcome = "events_raises"
    THEN [raw |-> raw, nextClaimId |-> nextClaimId, logs |-> logs,
          returned |-> SeedError("Failed to insert demo claim")]
    ELSE IF events = <<>>
    THEN [raw |-> raw, nextClaimId |-> nextClaimId, logs |-> logs,
          returned |-> SeedError("No events found in database")]
    ELSE IF outcome = "insert_raises"
    THEN [raw |-> raw, nextClaimId |-> nextClaimId, logs |-> logs,
          returned |-> SeedError("Failed to insert demo claim")]
    ELSE IF outcome = "log_raises"
    THEN [raw |-> Insert(raw, nextClaimId, NewRawClaim(claim, "seed", events[1])),
          nextClaimId |-> nextClaimId + 1, logs |-> logs,
          returned |-> SeedError("Failed to insert demo claim")]
    ELSE [raw |-> Insert(raw, nextClaimId, NewRawClaim(claim, "seed", events[1])),
          nextClaimId |-> nextClaimId + 1,
          logs |-> Append(logs, LogEntry("demo", 0, claim.claim_text)),
          returned |-> SeedSuccess(nextClaimId)]

\* POST /seed-demo-claim; the answer is not kept
seed_demo_claim ==
    /\ pc = "sleep"
    /\ nextClaimId <= MaxClaims
    /\ \E claim \in DemoClaims, outcome \in SeedOutcomes :
        /\ outcome # "ok" => events # <<>>
        /\ \E handled \in {seed_demo_claim_handler(claim, outcome)} :
              /\ raw' = handled.raw
              /\ nextClaimId' = handled.nextClaimId
              /\ logs' = handled.logs
    /\ UNCHANGED <<verified, nextVerificationId, events, loopVars,
                   scriptVars, agentVars, profilerVars, unitVars>>

\* POST /seed-demo-claim and its answer
seed_demo_claim_request ==
    /\ pc = "sleep"
    /\ nextClaimId <= MaxClaims
    /\ \E claim \in DemoClaims, outcome \in SeedOutcomes :
        /\ outcome # "ok" => events # <<>> /\ supabase_client # NoClient
        /\ \E handled \in {seed_demo_claim_handler(claim, outcome)} :
              /\ raw' = handled.raw
              /\ nextClaimId' = handled.nextClaimId
              /\ logs' = handled.logs
              /\ http_response' = <<[endpoint |-> "POST /seed-demo-claim",
                                      returned |-> handled.returned, raised |-> "",
                                      status |-> 200, body |-> handled.returned]>>
    /\ UNCHANGED <<verified, nextVerificationId, events, loopVars,
                   scriptVars, agentVars, profilerVars, investigatorVars, heraldVars,
                   cacheVars, supabase_client, socketVars, broadcastVars, taskVars, toolVars>>

(***************************************************************************)
(* reprocess_claim script                                                  *)
(***************************************************************************)
\* ilike("claim_text", "%earth%flat%")
MatchesEarthFlat(text) == text = FlatText

\* line 17
ReprocessQuery ==
    /\ rpc = "idle"
    /\ reprocessRuns < MaxReprocess
    /\ \E c \in DOMAIN raw : MatchesEarthFlat(raw[c].claim_text)
    /\ reprocessRuns' = reprocessRuns + 1
    /\ rbatch' = InOrder({c \in DOMAIN raw : MatchesEarthFlat(raw[c].claim_text)})
    /\ rpc' = "updating"
    /\ UNCHANGED <<dbVars, loopVars, agentVars, profilerVars, unitVars>>

\* lines 25-27
ReprocessUpdate ==
    /\ rpc = "updating"
    /\ raw' = UpdateStatus(Head(rbatch), "pending_initial_analysis")
    /\ rbatch' = Tail(rbatch)
    /\ rpc' = IF rbatch' = <<>> THEN "idle" ELSE "updating"
    /\ UNCHANGED <<nextClaimId, verified, nextVerificationId, logs, events,
                   loopVars, reprocessRuns, agentVars, profilerVars, unitVars>>

(***************************************************************************)
(* Outcomes of a call                                                      *)
(***************************************************************************)
None == <<>>

\* what a call does: it returns a value or raises
Return(value) == [raised |-> "", value |-> value]
Raise(exception) == [raised |-> exception, value |-> None]

(***************************************************************************)
(* The gateway's Herald (src/app.py lines 200-235)                         *)
(***************************************************************************)
\* a product below 256 is held exactly as <<whole, hi, lo>>:
\* whole + (hi * 2^28 + lo) * 2^-56
WTimes(p, k) ==
    CHOOSE r \in {<<p[1] * k + h \div Limb, h % Limb, l % Limb>> :
                    h \in {p[2] * k + (p[3] * k) \div Limb}, l \in {p[3] * k}} : TRUE

\* units of 2^-56 in one ulp of a value whose whole part is whole >= 1
WQuantum(whole) ==
    IF whole >= 128 THEN 2048
    ELSE IF whole >= 64 THEN 1024
    ELSE IF whole >= 32 THEN 512
    ELSE IF whole >= 16 THEN 256
    ELSE IF whole >= 8 THEN 128
    ELSE IF whole >= 4 THEN 64
    ELSE IF whole >= 2 THEN 32
    ELSE 16

\* carry of the fraction into the whole part
WNorm(whole, f) ==
    IF f[1] >= Limb THEN <<whole + 1, f[1] - Limb, f[2]>> ELSE <<whole, f[1], f[2]>>

\* round to nearest binary64, ties to even
WRound(p) ==
    IF p[1] = 0 THEN WNorm(0, FRound(<<p[2], p[3]>>))
    ELSE LET q == WQuantum(p[1])
             r == p[3] % q
             down == p[3] - r
             up == IF 2 * r > q THEN TRUE
                   ELSE IF 2 * r < q THEN FALSE
                   ELSE (down \div q) % 2 = 1
         IN  IF r = 0 THEN p
             ELSE IF up THEN WNorm(p[1], FNorm(p[2], down + q))
             ELSE <<p[1], p[2], down>>

\* confidence*100 in binary64: the exact product, rounded once
times_100(confidence) ==
    CHOOSE r \in {WRound(p) :
                    p \in {WTimes(WTimes(WTimes(<<0, c[1], c[2]>>, 5), 5), 4) :
                            c \in {confidence}}} : TRUE

Half == <<134217728, 0>>

format_0f_truncating(p) == ToString(p[1])
\* format(p, ".0f"): the decimal digits of the integer nearest to the double,
\* a double halfway between two integers going to the even one
format_0f(p) ==
    LET f == <<p[2], p[3]>>
    IN  IF FGt(f, Half) THEN ToString(p[1] + 1)
        ELSE IF FLt(f, Half) THEN ToString(p[1])
        ELSE IF p[1] % 2 = 1 THEN ToString(p[1] + 1)
        ELSE ToString(p[1])

GreenCircle == "U+1F7E2"
RedCircle == "U+1F534"
YellowCircle == "U+1F7E1"

\* the alert is held as the sequence of the pieces the f-strings join
herald_agent(report) ==
    LET verdict == Get(report, "verdict", "Misleading")
        confidence == Get(report, "confidence", F_0_5)
        reasoning == Get(report, "reasoning", "No reasoning provided")
        emoji == IF verdict = "True" THEN GreenCircle
                 ELSE IF verdict = "False" THEN RedCircle
                 ELSE YellowCircle
        sentence == IF verdict = "True"
                    THEN "This information has been verified as accurate."
                    ELSE IF verdict = "False"
                    THEN "This information has been confirmed as false."
                    ELSE "This information may be misleading."
    IN  IF confidence = None
        THEN \* lines 225-229: None*100
             Raise("TypeError")
        ELSE Return(<<emoji, " ", sentence, " ", reasoning, " ",
                      "Our confidence level is ", format_0f(times_100(confidence)), "%.">>)

(***************************************************************************)
(* CoordinatorAgent and its agents                                         *)
(***************************************************************************)
\* what the model call of analyze_with_gemini yields: a JSON object with the
\* given verdict, an object without a verdict, text that is not JSON, or an error
GeminiVerdicts == {"False", "Unverified"}
GeminiResponses == GeminiVerdicts \cup {"no_verdict", "not_json", "error"}

\* InvestigatorAgent.analyze_with_mock
analyze_with_mock(text_suspicion_score, source_credibility_score) ==
    IF FGt(text_suspicion_score, F_0_8) /\ FLt(source_credibility_score, F_0_3)
    THEN [verdict |-> "False", confidence |-> F_0_9,
          reasoning |-> "High suspicion score and low source credibility indicate misinformation."]
    ELSE IF FLt(text_suspicion_score, F_0_3) /\ FGt(source_credibility_score, F_0_7)
    THEN [verdict |-> "True", confidence |-> F_0_8,
          reasoning |-> "Low suspicion score and high source credibility suggest authentic information."]
    ELSE [verdict |-> "Misleading", confidence |-> F_0_6,
          reasoning |-> "Mixed indicators require further investigation for complete accuracy."]

\* InvestigatorAgent.analyze_with_gemini: json.loads(response.text), unvalidated
analyze_with_gemini(response) ==
    IF response = "no_verdict"
    THEN [confidence |-> F_0_5, reasoning |-> "model"]
    ELSE [verdict |-> response, confidence |-> F_0_5, reasoning |-> "model"]

\* InvestigatorAgent.process_task: the investigation_result
investigation_result(text_suspicion_score, source_credibility_score, response) ==
    IF use_gemini /\ response \notin {"not_json", "error"}
    THEN analyze_with_gemini(response)
    ELSE analyze_with_mock(text_suspicion_score, source_credibility_score)

\* AnalystAgent.process_task on a non-empty claim_text
analyst_process_task(text) ==
    IF ~models_loaded THEN F_0_5 ELSE predict_proba(text)

\* HeraldAgent.process_task: the public alert of the mock, which is the
\* alert of the gateway's Herald
herald_process_task(report) == herald_agent(report).value

\* lines 132-173: analyze_claim; SourceProfilerAgent.process_task raises
\* ValueError on metadata that is not JSON (source_profiler_agent.py 108-111)
analyze_claim(claim) ==
    IF ~json_parses(claim.source_metadata_json)
    THEN [raised |-> TRUE, stages |-> <<"analyst", "profiler">>]
    ELSE [raised |-> FALSE, stages |-> <<"analyst", "profiler">>,
          data |-> [claim_text |-> claim.claim_text,
                    source_metadata_json |-> claim.source_metadata_json,
                    text_suspicion_score |-> analyst_process_task(claim.claim_text),
                    source_credibility_score |->
                        calculate_source_score(claim.source_metadata_json.obj)]]

\* lines 251-269 with the branches taken for escalate
route(claim_data, response, escalate) ==
    LET result == investigation_result(claim_data.text_suspicion_score,
                                       claim_data.source_credibility_score, response)
    IN  IF escalate
        THEN IF "verdict" \in DOMAIN result
             THEN [raised |-> FALSE,
                   stages |-> <<"research", "investigator", "herald">>,
                   data |-> [k \in DOMAIN claim_data
                                     \cup {"research_dossier", "investigation_result",
                                           "public_alert"} |->
                               IF k = "research_dossier"
                               THEN gather_evidence(claim_data.claim_text)
                               ELSE IF k = "investigation_result" THEN result
                               ELSE IF k = "public_alert" THEN herald_process_task(result)
                               ELSE claim_data[k]]]
             ELSE \* line 218: KeyError
                  [raised |-> TRUE, stages |-> <<"research", "investigator">>]
        ELSE [raised |-> FALSE,
              stages |-> <<>>,
              data |-> [k \in DOMAIN claim_data \cup {"status"} |->
                          IF k = "status" THEN "archived" ELSE claim_data[k]]]

\* a routing that archives only strictly inside the thresholds
route_claim_strict(claim_data, response) ==
    route(claim_data, response,
          ~(FLt(claim_data.text_suspicion_score, F_0_3)
              /\ FGt(claim_data.source_credibility_score, F_0_7)))

\* lines 251-269: process_claim once the claim is analysed
route_claim(claim_data, response) ==
    route(claim_data, response,
          FGt(claim_data.text_suspicion_score, F_0_3)
              \/ FLt(claim_data.source_credibility_score, F_0_7))

\* CoordinatorAgent.process_claim: the agents invoked, and the claim_data or raised
process_claim(claim, response) ==
    CHOOSE processed \in
        { IF analysed.raised THEN analysed
          ELSE CHOOSE r \in
                 { IF routing.raised
                   THEN [raised |-> TRUE, stages |-> analysed.stages \o routing.stages]
                   ELSE [raised |-> FALSE, stages |-> analysed.stages \o routing.stages,
                         data |-> routing.data]
                   : routing \in {route_claim(analysed.data, response)} } : TRUE
          : analysed \in {analyze_claim(claim)} } : TRUE

\* scores the Analyst and the Source Profiler given to the constructor
\* (lines 29-31) return: the thresholds of line 252 and their neighbours
RoutedSuspicion ==
    {F_0_1, F_0_29999999999999993, F_0_3, F_0_30000000000000004, F_0_5, F_0_95}
RoutedCredibility ==
    {F_0_05, F_0_5, F_0_6999999999999998, F_0_7, F_0_7000000000000001, F_1_0}

\* lines 244-269: process_claim is called on a claim that such agents score
ProcessClaimCall ==
    /\ \E ts \in RoutedSuspicion, sc \in RoutedCredibility,
          answer \in (IF use_gemini THEN GeminiResponses ELSE {"error"}) :
        \E claim_data \in {[claim_text |-> FlatText,
                             source_metadata_json |-> json_dumps(WaterMeta),
                             text_suspicion_score |-> ts,
                             source_credibility_score |-> sc]} :
        \E routing \in {route_claim(claim_data, answer)} :
            routed' = <<[claim_data |-> claim_data,
                         answer |-> answer,
                         stages |-> <<"analyst", "profiler">> \o routing.stages,
                         outcome |-> routing]>>
    /\ UNCHANGED <<dbVars, loopVars, scriptVars, models_loaded, use_gemini, agentBatch, apc,
                   discovered, processed_claims, profilerVars, unitVars>>

\* lines 68-72 and 277: the sleep is over, run_cycle calls discover_claims
AgentRunCycle ==
    /\ LoopSuspended
    /\ apc = "sleep"
    /\ agentBatch = <<>>
    /\ apc' = "cycle"
    /\ agentBatch' = scout_agent
    /\ discovered' = scout_agent
    /\ processed_claims' = <<>>
    /\ UNCHANGED <<dbVars, loopVars, scriptVars, models_loaded, use_gemini,
                   routed, profilerVars, unitVars>>

\* discovered claims of a scout given to the constructor (lines 28-38): one
\* of them has metadata that is not JSON
InjectedDiscoveries ==
    { <<>>,
      <<[claim_text |-> FlatText, source_metadata_json |-> JsonCorrupt]>>,
      <<[claim_text |-> FlatText, source_metadata_json |-> JsonCorrupt],
        [claim_text |-> TaxText, source_metadata_json |-> json_dumps(WaterMeta)]>>,
      <<[claim_text |-> QuakeText, source_metadata_json |-> json_dumps(QuakeMeta)],
        [claim_text |-> FlatText, source_metadata_json |-> JsonCorrupt],
        [claim_text |-> TaxText, source_metadata_json |-> json_dumps(WaterMeta)]>> }

\* lines 68-72 and 277 with such a scout
AgentRunCycleInjected ==
    /\ LoopSuspended
    /\ apc = "sleep"
    /\ agentBatch = <<>>
    /\ apc' = "cycle"
    /\ \E new_claims \in InjectedDiscoveries :
          /\ agentBatch' = new_claims
          /\ discovered' = new_claims
    /\ processed_claims' = <<>>
    /\ UNCHANGED <<dbVars, loopVars, scriptVars, models_loaded, use_gemini,
                   routed, profilerVars, unitVars>>

\* lines 273-277 and 297-299: discover_claims raises; the handler of the
\* cycle returns the empty list
AgentDiscoveryRaises ==
    /\ LoopSuspended
    /\ apc = "sleep"
    /\ agentBatch = <<>>
    /\ failures < MaxFailures
    /\ failures' = failures + 1
    /\ apc' = "cycle"
    /\ agentBatch' = <<>>
    /\ discovered' = <<>>
    /\ processed_claims' = <<>>
    /\ UNCHANGED <<dbVars, pc, batch, step, cycleFailed, startPending, scriptVars,
                   models_loaded, use_gemini, routed, profilerVars, unitVars>>

SaveOutcomes == {"ok", "raw_raises", "verified_raises", "log_raises"}

\* a run_cycle that starts its list again when a claim fails
collect_restart(list, processed) ==
    IF processed.raised THEN <<>> ELSE Append(list, processed.data)

\* lines 282-284 and 290-292: the claim is appended when process_claim
\* returned, before it is saved
collect(list, processed) ==
    IF processed.raised THEN list ELSE Append(list, processed.data)

\* lines 281-292: process_claim, then save_claim_results (lines 301-346)
AgentProcessClaim ==
    /\ LoopSuspended
    /\ apc = "cycle"
    /\ agentBatch # <<>>
    /\ nextClaimId <= MaxClaims
    /\ \E response \in (IF use_gemini THEN GeminiResponses ELSE {"error"}),
          outcome \in SaveOutcomes :
        \E processed \in {process_claim(Head(agentBatch), response)} :
        LET claim_data == processed.data
            investigated == "investigation_result" \in DOMAIN claim_data
        IN  /\ outcome # "ok" =>
                    /\ ~processed.raised
                    /\ outcome = "verified_raises" => investigated
            /\ processed_claims' = collect(processed_claims, processed)
            /\ IF processed.raised \/ outcome = "raw_raises"
               THEN UNCHANGED <<raw, nextClaimId, verified, nextVerificationId, logs>>
               ELSE /\ raw' = Insert(raw, nextClaimId,
                            [claim_text |-> claim_data.claim_text,
                             source_metadata_json |-> claim_data.source_metadata_json,
                             text_suspicion_score |-> claim_data.text_suspicion_score,
                             source_credibility_score |-> claim_data.source_credibility_score,
                             research_dossier_json |->
                                 json_dumps(Get(claim_data, "research_dossier", EmptyDict)),
                             status |-> Get(claim_data, "status", "processed"),
                             via |-> "agent"])
                    /\ nextClaimId' = nextClaimId + 1
                    /\ IF investigated /\ outcome # "verified_raises"
                       THEN /\ verified' = Insert(verified, nextVerificationId,
                                    [raw_claim_id |-> nextClaimId,
                                     verification_status |-> claim_data.investigation_result.verdict,
                                     explanation |-> claim_data.investigation_result.reasoning])
                            /\ nextVerificationId' = nextVerificationId + 1
                       ELSE UNCHANGED <<verified, nextVerificationId>>
                    /\ IF outcome = "ok"
                       THEN logs' = Append(logs, LogEntry("processed", 0, claim_data.claim_text))
                       ELSE logs' = logs
    /\ agentBatch' = Tail(agentBatch)
    /\ UNCHANGED <<events, loopVars, scriptVars, models_loaded, use_gemini, apc, discovered,
                   routed, profilerVars, unitVars>>

\* the table holds MaxClaims rows: the claim is passed over
AgentCapped ==
    /\ LoopSuspended
    /\ apc = "cycle"
    /\ agentBatch # <<>>
    /\ nextClaimId > MaxClaims
    /\ agentBatch' = Tail(agentBatch)
    /\ UNCHANGED <<dbVars, loopVars, scriptVars, models_loaded, use_gemini, apc, discovered,
                   processed_claims, routed, profilerVars, unitVars>>

\* lines 72-83 and 294-295: run_cycle returns processed_claims; the list is
\* announced to the dashboards, of which none is connected, and the loop
\* sleeps again
AgentEndCycle ==
    /\ LoopSuspended
    /\ apc = "cycle"
    /\ agentBatch = <<>>
    /\ apc' = "sleep"
    /\ discovered' = <<>>
    /\ processed_claims' = <<>>
    /\ UNCHANGED <<dbVars, loopVars, scriptVars, models_loaded, use_gemini, agentBatch,
                   routed, profilerVars, unitVars>>

\* lines 75-86: a statement after run_cycle, which catches its own exceptions
\* (lines 297-299), raises; the handler of the loop logs and starts the
\* 5-second sleep
AgentLoopRaises ==
    /\ LoopSuspended
    /\ apc = "cycle"
    /\ agentBatch = <<>>
    /\ failures < MaxFailures
    /\ failures' = failures + 1
    /\ apc' = "backoff"
    /\ discovered' = <<>>
    /\ processed_claims' = <<>>
    /\ UNCHANGED <<dbVars, pc, batch, step, cycleFailed, startPending, scriptVars,
                   models_loaded, use_gemini, agentBatch, routed, profilerVars, unitVars>>

\* line 86: the 5-second sleep is over; back to line 69
AgentBackoff ==
    /\ LoopSuspended
    /\ apc = "backoff"
    /\ apc' = "sleep"
    /\ UNCHANGED <<dbVars, loopVars, scriptVars, models_loaded, use_gemini, agentBatch,
                   discovered, processed_claims, routed,
                   profilerVars, unitVars>>

(***************************************************************************)
(* SourceProfilerAgent: one call of calculate_source_score                 *)
(***************************************************************************)
Ages == {-1, 0, 15, 29, 30, 31, 365, 366, 1825}
Followers == {-1, 0, 50, 999, 1000, 5000, 1000000, 1000001, 2500000}
Followings == {-1, 0, 1, 150, 800}

FullMetadatas ==
    [account_age_days : Ages, followers : Followers, following : Followings,
     is_verified : BOOLEAN]

\* any subset of the fields may be missing
Metadatas ==
    UNION {{[k \in keys |-> md[k]] : md \in FullMetadatas} : keys \in SUBSET MetadataKeys}

ProfileSource ==
    /\ score = <<>>
    /\ score' = calculate_source_score(metadata)
    /\ UNCHANGED <<dbVars, loopVars, scriptVars, agentVars, metadata, unitVars>>

(***************************************************************************)
(* The Investigator's mock analysis, called with a case file: the gateway  *)
(* function (src/app.py) and the agent class's method                      *)
(* (src/backend/agents/investigator_agent.py)                              *)
(***************************************************************************)
\* app.py lines 170-174: dict.get defaults an absent key to 0.5; a key that
\* is present with None is returned as None, and formatting None with
\* ":.4f" raises TypeError
investigator_agent_call(cf) ==
    LET text_suspicion_score == Get(cf, "text_suspicion_score", F_0_5)
        source_credibility_score == Get(cf, "source_credibility_score", F_0_5)
    IN  IF text_suspicion_score = None \/ source_credibility_score = None
        THEN Raise("TypeError")
        ELSE Return(investigator_agent(text_suspicion_score, source_credibility_score))

\* investigator_agent.py lines 95-99
analyze_with_mock_call(cf) ==
    LET text_suspicion_score == Get(cf, "text_suspicion_score", F_0_5)
        source_credibility_score == Get(cf, "source_credibility_score", F_0_5)
    IN  IF text_suspicion_score = None \/ source_credibility_score = None
        THEN Raise("TypeError")
        ELSE Return(analyze_with_mock(text_suspicion_score, source_credibility_score))

F_0_7999999999999999 == <<214748364, 214748360>>
F_0_8000000000000002 == <<214748364, 214748376>>

\* scores at, just below and just above each threshold, and None
CaseScores ==
    {F_0_0, F_0_1, F_0_2, F_0_29999999999999993, F_0_3, F_0_30000000000000004,
     F_0_5, F_0_6999999999999998, F_0_7, F_0_7000000000000001,
     F_0_7999999999999999, F_0_8, F_0_8000000000000002, F_0_95, F_1_0, None}
ScoreKeys == {"text_suspicion_score", "source_credibility_score"}

\* either score may be absent from the case file
CaseFiles == UNION {[keys -> CaseScores] : keys \in SUBSET ScoreKeys}

InvestigateWithMock ==
    /\ investigation = <<>>
    /\ investigation' = <<[by_function |-> investigator_agent_call(case_file),
                           by_class |-> analyze_with_mock_call(case_file)]>>
    /\ UNCHANGED <<dbVars, loopVars, scriptVars, agentVars, profilerVars, case_file,
                   heraldVars, cacheVars, gatewayVars, socketVars, broadcastVars, taskVars, toolVars>>

F_0_125 == <<33554432, 0>>
F_0_155 == <<41607495, 182536110>>
F_0_165 == <<44291850, 64424510>>
F_0_285 == <<76504104, 257698036>>
F_0_375 == <<100663296, 0>>
F_0_575 == <<154350387, 53687088>>
F_0_995 == <<267093278, 193273528>>
F_0_999 == <<268167020, 146028888>>

ReportVerdicts == {"True", "False", "Misleading", "Unverified", "true"}
ReportConfidences ==
    {F_0_0, F_0_125, F_0_155, F_0_165, F_0_285, F_0_375, F_0_5, F_0_575, F_0_6,
     F_0_8, F_0_9, F_0_95, F_0_995, F_0_999, F_1_0}
ReportReasonings ==
    {"X", "Multiple credible sources contradict this claim, and scientific consensus confirms the opposite."}
ReportKeys == {"verdict", "confidence", "reasoning"}

FullReports ==
    [verdict : ReportVerdicts, confidence : ReportConfidences \cup {None},
     reasoning : ReportReasonings]

\* any of the three keys may be absent
Reports ==
    UNION {{[k \in keys |-> report[k]] : report \in FullReports} : keys \in SUBSET ReportKeys}

GenerateAlert ==
    /\ alert = <<>>
    /\ alert' = <<herald_agent(herald_report)>>
    /\ UNCHANGED <<dbVars, loopVars, scriptVars, agentVars, profilerVars, herald_report,
                   investigatorVars, cacheVars, gatewayVars, socketVars, broadcastVars, taskVars, toolVars>>

(***************************************************************************)
(* CacheManager with the in-memory store                                   *)
(* (src/backend/utils/cache_manager.py)                                    *)
(***************************************************************************)
MaxCalls == 4

Whitespace == {" ", "\t", "\n"}

RECURSIVE LStrip(_)
LStrip(s) == IF s # <<>> /\ Head(s) \in Whitespace THEN LStrip(Tail(s)) ELSE s
RECURSIVE RStrip(_)
RStrip(s) ==
    IF s # <<>> /\ s[Len(s)] \in Whitespace THEN RStrip(SubSeq(s, 1, Len(s) - 1)) ELSE s
\* str.strip()
Strip(s) == RStrip(LStrip(s))

\* hashlib.md5(s.encode()).hexdigest() of the strings that are hashed here
md5_hexdigest(s) ==
    CASE s = <<"A">> -> "7fc56270e7a70fa81a5935b72eacbe29"
      [] s = <<" ", "a", " ">> -> "e49736f09a17efd3daec360132426f43"
      [] s = <<"E">> -> "3a3ea00cfc35332cedf6e5e9a32e94da"
      [] s = <<"a", " ", "e">> -> "4341989d612e2b9b789444552b62e2f2"
      [] s = <<"a">> -> "0cc175b9c0f1b6a831c399e269772661"
      [] s = <<"e">> -> "e1671797c52e15f763380b45e841ec32"

generate_cache_key_verbatim(claim_text, prefix) ==
    <<prefix, ":", md5_hexdigest(claim_text)>>
\* lines 48-54; the key is held as the pieces the f-string joins
generate_cache_key(claim_text, prefix) ==
    LET normalized == Strip(Lower(claim_text))
        claim_hash == md5_hexdigest(normalized)
    IN  <<prefix, ":", claim_hash>>

\* lines 56-73, in-memory branch
get(key) == IF key \in DOMAIN memory_cache THEN memory_cache[key] ELSE None

\* lines 75-92, in-memory branch: the store after set(key, value)
set(key, value) ==
    [k \in DOMAIN memory_cache \cup {key} |-> IF k = key THEN value ELSE memory_cache[k]]

\* lines 23-46: use_redis and redis_client after __init__(use_redis=requested),
\* when the import and the ping succeed, the import fails, or the ping raises
CacheManager_init(requested, attempt) ==
    [use_redis |-> requested /\ attempt = "connected",
     redis_client |-> requested /\ attempt # "import_error"]

\* the condition of lines 59, 78, 109 and 128
RedisBackend == use_redis /\ redis_client

\* a manager whose operations let the exception of the store through
on_store_error_propagates(fallback) == Raise("ConnectionError")

\* the handlers of lines 71-73, 91-93, 120-122 and 135-137: the exception is
\* logged and the fallback is returned
on_store_error(fallback) == Return(fallback)

\* lines 60-63 and 70: GET and json.loads; a value that is not JSON makes
\* json.loads raise inside the try block
redis_get(key) ==
    IF key \in DOMAIN redis.db
    THEN IF json_parses(redis.db[key]) THEN Return(redis.db[key].obj)
         ELSE on_store_error(None)
    ELSE Return(None)

\* the server after GET key
redis_after_get(key) ==
    IF key \in DOMAIN redis.db
    THEN [redis EXCEPT !.keyspace_hits = @ + 1]
    ELSE [redis EXCEPT !.keyspace_misses = @ + 1]

\* lines 79-84: the server after SETEX key ttl json.dumps(value)
redis_after_setex(key, value) ==
    [redis EXCEPT !.db = [k \in DOMAIN redis.db \cup {key} |->
                            IF k = key THEN json_dumps(value) ELSE redis.db[k]]]

ClaimTexts == {<<"A">>, <<" ", "a", " ">>, <<"E">>, <<"a", " ", "e">>}
\* analysis results, each a dict held as its key and value
CachedResults == {<<"verdict", "False">>, <<"verdict", "True">>}

\* the record of a call: what it was given, what it returned or raised,
\* the store it went to and whether that store raised
CacheCall(op, claim_text, result, outcome, store_raises) ==
    [op |-> op, claim_text |-> claim_text, result |-> result,
     returned |-> outcome.value, raised |-> outcome.raised,
     backend |-> IF RedisBackend THEN "redis" ELSE "memory",
     store_raised |-> store_raises]

\* lines 94-100, with get (lines 56-73)
check_similar_claim ==
    /\ Len(calls) < MaxCalls
    /\ \E claim_text \in ClaimTexts, store_raises \in BOOLEAN :
          /\ store_raises => RedisBackend
          /\ \E cache_key \in {generate_cache_key(claim_text, "claim")} :
                /\ \E outcome \in {IF RedisBackend
                                   THEN IF store_raises THEN on_store_error(None)
                                        ELSE redis_get(cache_key)
                                   ELSE Return(get(cache_key))} :
                      calls' = Append(calls, CacheCall("check_similar_claim", claim_text,
                                                       None, outcome, store_raises))
                /\ redis' = IF RedisBackend /\ ~store_raises
                            THEN redis_after_get(cache_key) ELSE redis
    /\ UNCHANGED <<dbVars, loopVars, scriptVars, agentVars, profilerVars, investigatorVars,
                   heraldVars, memory_cache, use_redis, redis_client, gatewayVars,
                   socketVars, broadcastVars, taskVars, toolVars>>

\* lines 102-105, with set (lines 75-92)
cache_claim_result ==
    /\ Len(calls) < MaxCalls
    /\ \E claim_text \in ClaimTexts, result \in CachedResults, store_raises \in BOOLEAN :
          /\ store_raises => RedisBackend
          /\ \E cache_key \in {generate_cache_key(claim_text, "claim")} :
                /\ memory_cache' = IF RedisBackend THEN memory_cache
                                   ELSE set(cache_key, result)
                /\ redis' = IF RedisBackend /\ ~store_raises
                            THEN redis_after_setex(cache_key, result) ELSE redis
                /\ \E outcome \in {IF store_raises THEN on_store_error(<<FALSE>>)
                                   ELSE Return(<<TRUE>>)} :
                      calls' = Append(calls, CacheCall("cache_claim_result", claim_text,
                                                       result, outcome, store_raises))
    /\ UNCHANGED <<dbVars, loopVars, scriptVars, agentVars, profilerVars, investigatorVars,
                   heraldVars, use_redis, redis_client, gatewayVars, socketVars,
                   broadcastVars, taskVars, toolVars>>

\* lines 125-137
clear_cache ==
    /\ Len(calls) < MaxCalls
    /\ \E store_raises \in BOOLEAN :
          /\ store_raises => RedisBackend
          /\ memory_cache' = IF RedisBackend THEN memory_cache ELSE <<>>
          /\ redis' = IF RedisBackend /\ ~store_raises
                      THEN [redis EXCEPT !.db = <<>>] ELSE redis
          /\ \E outcome \in {IF store_raises THEN on_store_error(<<FALSE>>)
                             ELSE Return(<<TRUE>>)} :
                calls' = Append(calls, CacheCall("clear_cache", <<>>, None, outcome,
                                                 store_raises))
    /\ UNCHANGED <<dbVars, loopVars, scriptVars, agentVars, profilerVars, investigatorVars,
                   heraldVars, use_redis, redis_client, gatewayVars, socketVars,
                   broadcastVars, taskVars, toolVars>>

\* lines 107-123
get_cache_stats ==
    /\ Len(calls) < MaxCalls
    /\ \E store_raises \in BOOLEAN :
          /\ store_raises => RedisBackend
          /\ \E outcome \in {IF RedisBackend
                             THEN IF store_raises
                                  THEN on_store_error([type |-> "redis",
                                                       error |-> "ConnectionError"])
                                  ELSE Return([type |-> "redis",
                                               total_keys |-> Cardinality(DOMAIN redis.db),
                                               hits |-> redis.keyspace_hits,
                                               misses |-> redis.keyspace_misses])
                             ELSE Return([type |-> "memory",
                                          total_keys |-> Cardinality(DOMAIN memory_cache)])} :
                calls' = Append(calls, CacheCall("get_cache_stats", <<>>, None, outcome,
                                                 store_raises))
    /\ UNCHANGED <<dbVars, loopVars, scriptVars, agentVars, profilerVars, investigatorVars,
                   heraldVars, memory_cache, use_redis, redis_client, redis, gatewayVars,
                   socketVars, broadcastVars, taskVars, toolVars>>

NextCache == check_similar_claim \/ cache_claim_result \/ clear_cache

NextCacheBackend == NextCache \/ get_cache_stats

(***************************************************************************)
(* The gateway's read endpoints (src/app.py lines 592-664)                 *)
(***************************************************************************)
UpdatesLimit == 20
StatusLimit == 10

\* what a handler returns: a dict with the key "error", or a list of models
ErrorObject(detail) == [kind |-> "dict", error |-> detail, items |-> <<>>]
ModelList(items) == [kind |-> "list", error |-> "", items |-> items]

\* lines 592 and 631: the routes are declared with response_model=List[...];
\* FastAPI validates what the handler returned against it, and a dict is not
\* a list: the validation error leaves the route and the client is answered
\* 500 Internal Server Error
ValidateList(endpoint, returned) ==
    IF returned.kind = "list"
    THEN [endpoint |-> endpoint, returned |-> returned, raised |-> "",
          status |-> 200, body |-> returned]
    ELSE [endpoint |-> endpoint, returned |-> returned, raised |-> "ResponseValidationError",
          status |-> 500, body |-> [kind |-> "text", error |-> "Internal Server Error", items |-> <<>>]]

RECURSIVE Reverse(_)
Reverse(s) == IF s = <<>> THEN <<>> ELSE Reverse(Tail(s)) \o <<Head(s)>>

\* .limit(n)
Limit(s, n) == IF Len(s) > n THEN SubSeq(s, 1, n) ELSE s

QueryOutcomes == {"ok", "raises"}

\* lines 604-621: the latest verified claims, newest first
VerifiedUpdates ==
    LET ids == Limit(Reverse(InOrder(DOMAIN verified)), UpdatesLimit)
    IN  [i \in 1..Len(ids) |->
            [verification_id |-> ids[i],
             raw_claim_id |-> verified[ids[i]].raw_claim_id,
             verification_status |-> verified[ids[i]].verification_status,
             explanation |-> verified[ids[i]].explanation]]

\* lines 643-656: the latest system logs, newest first
StatusLogs ==
    LET ids == Limit(Reverse([i \in 1..Len(logs) |-> i]), StatusLimit)
    IN  [i \in 1..Len(ids) |-> [log_id |-> ids[i], log_message |-> logs[ids[i]].msg]]

\* GET /updates, lines 592-628
get_updates ==
    /\ pc = "sleep"
    /\ \E outcome \in QueryOutcomes :
          http_response' = <<ValidateList("GET /updates",
              IF supabase_client = NoClient
              THEN ErrorObject("Supabase client not initialized")
              ELSE IF outcome = "raises"
              THEN ErrorObject("Failed to fetch updates")
              ELSE ModelList(VerifiedUpdates))>>
    /\ UNCHANGED <<dbVars, loopVars, scriptVars, agentVars, profilerVars, investigatorVars,
                   heraldVars, cacheVars, supabase_client, socketVars, broadcastVars, taskVars, toolVars>>

\* GET /agent-status, lines 631-664
get_agent_status ==
    /\ pc = "sleep"
    /\ \E outcome \in QueryOutcomes :
          http_response' = <<ValidateList("GET /agent-status",
              IF supabase_client = NoClient
              THEN ErrorObject("Supabase client not initialized")
              ELSE IF outcome = "raises"
              THEN ErrorObject("Failed to fetch agent status")
              ELSE ModelList(StatusLogs))>>
    /\ UNCHANGED <<dbVars, loopVars, scriptVars, agentVars, profilerVars, investigatorVars,
                   heraldVars, cacheVars, supabase_client, socketVars, broadcastVars, taskVars, toolVars>>

(***************************************************************************)
(* ConnectionManager (src/websocket_manager.py) beside the dashboard       *)
(* sockets' endpoint (src/app.py lines 667-683)                            *)
(***************************************************************************)
MaxSockets == 3

\* list.remove(x) of a list without duplicates, guarded by "x in list"
Remove(list, x) == SelectSeq(list, LAMBDA y : y # x)

\* the sockets of a list
Registered(list) == {list[i] : i \in 1..Len(list)}

\* app.py lines 667-671: a dashboard asks for /ws/dashboard; its handler calls
\* connect, which awaits websocket.accept()
websocket_endpoint ==
    /\ nextSocket <= MaxSockets
    /\ ws_handler' = [w \in 1..nextSocket |->
                      IF w = nextSocket THEN "accepting" ELSE ws_handler[w]]
    /\ nextSocket' = nextSocket + 1
    /\ UNCHANGED <<dbVars, loopVars, scriptVars, agentVars, profilerVars, investigatorVars,
                   heraldVars, cacheVars, gatewayVars, active_connections, broadcastVars,
                   taskVars, toolVars>>

\* a connect that registers the socket before it awaits the accept
after_accept_registered_first(websocket, ok) ==
    [active_connections |-> Append(active_connections, websocket),
     handler_pc |-> IF ok THEN "serving" ELSE "exited"]

\* lines 29-31 and app.py lines 671-673: accept returned and the socket is
\* appended, or accept raised, connect raised with it and the handler, which
\* had not entered its try block, is over
after_accept(websocket, ok) ==
    IF ok THEN [active_connections |-> Append(active_connections, websocket),
                handler_pc |-> "serving"]
    ELSE [active_connections |-> active_connections, handler_pc |-> "exited"]

\* lines 23-32: the accept of a socket is over
connect ==
    /\ \E websocket \in DOMAIN ws_handler, ok \in BOOLEAN :
          /\ ws_handler[websocket] = "accepting"
          /\ \E after \in {after_accept(websocket, ok)} :
                /\ active_connections' = after.active_connections
                /\ ws_handler' = [ws_handler EXCEPT ![websocket] = after.handler_pc]
    /\ UNCHANGED <<dbVars, loopVars, scriptVars, agentVars, profilerVars, investigatorVars,
                   heraldVars, cacheVars, gatewayVars, nextSocket, broadcastVars, taskVars, toolVars>>

\* lines 34-43, called from the handler's finally block (app.py lines 679-683)
\* when the receive or the echo of its loop raises: the socket is removed if
\* it is in the list, and the handler is over
disconnect ==
    /\ \E websocket \in DOMAIN ws_handler :
          /\ ws_handler[websocket] = "serving"
          /\ active_connections' =
                IF websocket \in Registered(active_connections)
                THEN Remove(active_connections, websocket)
                ELSE active_connections
          /\ ws_handler' = [ws_handler EXCEPT ![websocket] = "exited"]
    /\ UNCHANGED <<dbVars, loopVars, scriptVars, agentVars, profilerVars, investigatorVars,
                   heraldVars, cacheVars, gatewayVars, nextSocket, broadcastVars, taskVars, toolVars>>

\* coordinator_agent.py lines 77-81: the messages the coordinator broadcasts
BroadcastMessages == {[type |-> "claim_updates", count |-> n] : n \in 1..2}

\* lines 53-57: json.dumps and the copy of the list
broadcast_call ==
    /\ bpc \in {"idle", "returned"}
    /\ \E m \in BroadcastMessages : message' = m
    /\ snapshot' = active_connections
    /\ pending' = active_connections
    /\ sent' = <<>>
    /\ bpc' = "sending"
    /\ UNCHANGED <<dbVars, loopVars, scriptVars, agentVars, profilerVars, investigatorVars,
                   heraldVars, cacheVars, gatewayVars, socketVars, taskVars, toolVars>>

\* a loop body without the try: the first failed send ends the broadcast
after_send_unhandled(connection, ok) ==
    IF ok THEN [active_connections |-> active_connections, bpc |-> "sending"]
    ELSE [active_connections |-> active_connections, bpc |-> "raised"]
\* lines 58-65: what the loop body leaves after the send to connection
after_send(connection, ok) ==
    IF ok THEN [active_connections |-> active_connections, bpc |-> "sending"]
    ELSE [active_connections |-> Remove(active_connections, connection), bpc |-> "sending"]

\* lines 57-65: one iteration; the send suspends the broadcast, so the other
\* tasks act between two iterations
broadcast_send ==
    /\ bpc = "sending"
    /\ pending # <<>>
    /\ \E ok \in BOOLEAN :
          \E after \in {after_send(Head(pending), ok)} :
              /\ sent' = Append(sent, [connection |-> Head(pending), ok |-> ok,
                                       text |-> json_dumps(message)])
              /\ active_connections' = after.active_connections
              /\ bpc' = after.bpc
    /\ pending' = Tail(pending)
    /\ UNCHANGED <<dbVars, loopVars, scriptVars, agentVars, profilerVars, investigatorVars,
                   heraldVars, cacheVars, gatewayVars, nextSocket, ws_handler, message,
                   snapshot, taskVars, toolVars>>

\* the loop is over
broadcast_return ==
    /\ bpc = "sending"
    /\ pending = <<>>
    /\ bpc' = "returned"
    /\ UNCHANGED <<dbVars, loopVars, scriptVars, agentVars, profilerVars, investigatorVars,
                   heraldVars, cacheVars, gatewayVars, socketVars, message, snapshot,
                   pending, sent, taskVars, toolVars>>

NextBroadcast ==
    websocket_endpoint \/ connect \/ disconnect \/ broadcast_call \/ broadcast_send \/ broadcast_return

(***************************************************************************)
(* FactCheckDatabases (src/backend/utils/fact_check_databases.py)          *)
(***************************************************************************)
F_0_65 == <<174483046, 107374184>>
F_0_75 == <<201326592, 0>>

\* urllib.parse.quote of the claim texts that are looked up; a lone surrogate
\* cannot be encoded
LoneSurrogate == "\\ud800"
quote(claim_text) ==
    CASE claim_text = "vaccines cause autism" -> Return("vaccines%20cause%20autism")
      [] claim_text = "5G/coronavirus?" -> Return("5G/coronavirus%3F")
      [] claim_text = LoneSurrogate -> Raise("UnicodeEncodeError")

\* the keywords of lines 94-118 and 145-170 that a phrase of a page holds once
\* lower-cased
PhraseKeywords(phrase) ==
    CASE phrase = "False" -> {"false"}
      [] phrase = "half-true" -> {"half-true", "true"}
      [] phrase = "Fact Check" -> {"fact check"}
      [] OTHER -> {phrase}

\* response.text.lower(), as the keywords it holds
content_of(text) == UNION {PhraseKeywords(phrase) : phrase \in text}

\* session.get raised, or the response with its status and its text
SiteTexts ==
    { {}, {"False", "rating"}, {"false"}, {"true", "Fact Check"}, {"half-true"},
      {"mixture"}, {"mostly", "rating"}, {"pants on fire"} }
SiteResponses ==
    {[kind |-> "raises"], [kind |-> "response", status_code |-> 404, text |-> {}]}
        \cup {[kind |-> "response", status_code |-> 200, text |-> t] : t \in SiteTexts}

\* the dict of a match
Match(source, verdict, confidence, url) ==
    <<[source |-> source, verdict |-> verdict, confidence |-> confidence, url |-> url,
       method |-> "keyword_match"]>>

\* lines 52-73: nothing is requested
check_google_fact_check(claim_text) == Return(None)

\* a scan whose errors are not caught
check_snopes_search_unguarded(claim_text, response) ==
    IF quote(claim_text).raised # "" THEN Raise(quote(claim_text).raised)
    ELSE IF response.kind = "raises" THEN Raise("ConnectionError")
    ELSE Return(None)

\* lines 75-125
check_snopes_search(claim_text, response) ==
    IF quote(claim_text).raised # "" \/ response.kind = "raises" THEN Return(None)
    ELSE LET search_url == <<"https://www.snopes.com/?s=", quote(claim_text).value>>
             content == content_of(response.text)
         IN  IF response.status_code # 200 THEN Return(None)
             ELSE IF "false" \in content /\ ("rating" \in content \/ "fact check" \in content)
             THEN Return(Match("Snopes", "False", F_0_7, search_url))
             ELSE IF "true" \in content /\ ("rating" \in content \/ "fact check" \in content)
             THEN Return(Match("Snopes", "True", F_0_7, search_url))
             ELSE IF "mixture" \in content \/ "mostly" \in content
             THEN Return(Match("Snopes", "Misleading", F_0_6, search_url))
             ELSE Return(None)

\* lines 127-176
check_politifact_search(claim_text, response) ==
    IF quote(claim_text).raised # "" \/ response.kind = "raises" THEN Return(None)
    ELSE LET search_url == <<"https://www.politifact.com/search/?q=", quote(claim_text).value>>
             content == content_of(response.text)
         IN  IF response.status_code # 200 THEN Return(None)
             ELSE IF "pants on fire" \in content \/ "false" \in content
             THEN Return(Match("PolitiFact", "False", F_0_75, search_url))
             ELSE IF "true" \in content /\ "rating" \in content
             THEN Return(Match("PolitiFact", "True", F_0_75, search_url))
             ELSE IF "half-true" \in content \/ "mostly" \in content
             THEN Return(Match("PolitiFact", "Misleading", F_0_65, search_url))
             ELSE Return(None)

\* lines 29-50: the checks made, in order, with what each returned, and
\* what check_all_databases returned or raised
check_all_databases(claim_text, snopes, politifact) ==
    LET google == check_google_fact_check(claim_text)
        first == check_snopes_search(claim_text, snopes)
        second == check_politifact_search(claim_text, politifact)
        Outcome(checks, outcome) ==
            [consulted |-> [i \in DOMAIN checks |-> checks[i][1]],
             results |-> [i \in DOMAIN checks |-> checks[i][2].value],
             returned |-> outcome.value, raised |-> outcome.raised]
    IN  IF google.raised # "" \/ google.value # None
        THEN Outcome(<<<<"google", google>>>>, google)
        ELSE IF first.raised # "" \/ first.value # None
        THEN Outcome(<<<<"google", google>>, <<"snopes", first>>>>, first)
        ELSE IF second.raised # "" \/ second.value # None
        THEN Outcome(<<<<"google", google>>, <<"snopes", first>>, <<"politifact", second>>>>,
                     second)
        ELSE Outcome(<<<<"google", google>>, <<"snopes", first>>, <<"politifact", second>>>>,
                     Return(None))

LookedUpTexts == {"vaccines cause autism", "5G/coronavirus?", LoneSurrogate}

\* a call of check_all_databases, with what the two sites answer
check_all_databases_call ==
    /\ \E claim_text \in LookedUpTexts, snopes \in SiteResponses, politifact \in SiteResponses :
          \E outcome \in {check_all_databases(claim_text, snopes, politifact)} :
              lookups' = <<[claim_text |-> claim_text, snopes |-> snopes,
                            politifact |-> politifact, outcome |-> outcome]>>
    /\ UNCHANGED <<dbVars, loopVars, scriptVars, agentVars, profilerVars, investigatorVars,
                   heraldVars, cacheVars, gatewayVars, socketVars, broadcastVars, taskVars,
                   analyst_models, analyses, cleanup>>

(***************************************************************************)
(* AnalystAgent: construction and process_task                             *)
(* (src/backend/agents/analyst_agent.py)                                   *)
(***************************************************************************)
\* joblib.load of an artifact
LoadOutcomes == {"ok", "FileNotFoundError", "Exception"}

\* lines 20-37: self.vectorizer and self.classifier (TRUE: not None) when
\* __init__ returns; the classifier is loaded after the vectorizer, in one
\* try block
load_models(vectorizer_load, classifier_load) ==
    [vectorizer_load |-> vectorizer_load,
     classifier_load |-> classifier_load,
     vectorizer |-> vectorizer_load = "ok",
     classifier |-> vectorizer_load = "ok" /\ classifier_load = "ok"]

\* what transform and predict_proba do on this call
PredictionOutcomes == {"ok", "transform raises", "predict_proba raises"}

\* a process_task whose neutral score is returned only when nothing was loaded
AnalystAgent_process_task_unguarded(agent, task, prediction) ==
    LET claim_text == Get(task.payload, "claim_text", "")
    IN  IF claim_text = "" THEN Raise("ValueError")
        ELSE IF ~agent.vectorizer /\ ~agent.classifier
        THEN Return([claim_text |-> claim_text, text_suspicion_score |-> F_0_5,
                     analysis_timestamp |-> task.created_at])
        ELSE IF prediction # "ok" \/ ~agent.vectorizer \/ ~agent.classifier
        THEN Raise("AttributeError")
        ELSE Return([claim_text |-> claim_text,
                     text_suspicion_score |-> predict_proba(claim_text),
                     analysis_timestamp |-> task.created_at])

\* lines 39-91
AnalystAgent_process_task(agent, task, prediction) ==
    LET claim_text == Get(task.payload, "claim_text", "")
    IN  IF claim_text = ""
        THEN \* line 54
             Raise("ValueError")
        ELSE IF ~agent.vectorizer \/ ~agent.classifier
        THEN \* lines 59-65
             Return([claim_text |-> claim_text, text_suspicion_score |-> F_0_5,
                     analysis_timestamp |-> task.created_at])
        ELSE IF prediction # "ok"
        THEN \* lines 82-91
             Return([claim_text |-> claim_text, text_suspicion_score |-> F_0_5,
                     error |-> prediction,
                     analysis_timestamp |-> task.created_at])
        ELSE \* lines 67-80
             Return([claim_text |-> claim_text,
                     text_suspicion_score |-> predict_proba(claim_text),
                     analysis_timestamp |-> task.created_at])

\* the payloads of the tasks: a claim_text, an empty one, or none
AnalystPayloads ==
    {[claim_text |-> t] : t \in {QuakeText, TaxText, FlatText, ""}} \cup {EmptyDict}

\* a task is given to the agent
analyze_task ==
    /\ \E payload \in AnalystPayloads, prediction \in PredictionOutcomes :
          \E task \in {[payload |-> payload, created_at |-> "2025-01-01T00:00:00"]} :
              \E outcome \in {AnalystAgent_process_task(analyst_models, task, prediction)} :
                  analyses' = <<[task |-> task, prediction |-> prediction,
                                 returned |-> outcome.value, raised |-> outcome.raised]>>
    /\ UNCHANGED <<dbVars, loopVars, scriptVars, agentVars, profilerVars, investigatorVars,
                   heraldVars, cacheVars, gatewayVars, socketVars, broadcastVars, taskVars,
                   lookups, analyst_models, cleanup>>

(***************************************************************************)
(* cleanup_database script (src/cleanup_database.py)                       *)
(***************************************************************************)
\* lines 29-33
test_claims == <<QuakeText, WaterText, TaxText>>

\* a claim text that quotes the first sample claim
QuotedQuakeText == "RT Breaking: Major earthquake hits city center! (via @citynews)"

\* sub in text, for the texts the tables hold
InText(sub, text) == sub = text \/ (sub = QuakeText /\ text = QuotedQuakeText)

\* line 38: any(test_claim in claim_text for test_claim in test_claims)
is_duplicate(claim) ==
    \E i \in DOMAIN test_claims : InText(test_claims[i], claim.claim_text)

\* table.delete().eq(key, id): the table without that row
Delete(table, id) == [c \in DOMAIN table \ {id} |-> table[c]]

\* a script that takes any answer that starts with y for a yes
confirmed_by_first_letter(choice) == choice # <<>> /\ choice[1] = "y"

\* line 48: if choice == "yes"
confirmed(choice) == choice = <<"y", "e", "s">>

\* the script before it is run
CleanupIdle ==
    [pc |-> "idle", duplicate_ids |-> <<>>, choice |-> <<>>, todo |-> <<>>,
     verified_todo |-> <<>>, raised |-> FALSE, raw_before |-> <<>>, verified_before |-> <<>>]

\* lines 23-43: the select of raw_claims and the search for the sample
\* claims; without a flagged claim the script is over (lines 70-71)
CleanupSelect ==
    /\ cleanup.pc = "idle"
    /\ \E ids \in {InOrder({c \in DOMAIN raw : is_duplicate(raw[c])})} :
          cleanup' = [cleanup EXCEPT !.pc = IF ids = <<>> THEN "done" ELSE "prompt",
                                     !.duplicate_ids = ids,
                                     !.raw_before = raw,
                                     !.verified_before = verified]
    /\ UNCHANGED <<dbVars, loopVars, scriptVars, agentVars, profilerVars, investigatorVars,
                   heraldVars, cacheVars, gatewayVars, socketVars, broadcastVars, taskVars,
                   lookups, analyst_models, analyses>>

\* what the operator types
Answers ==
    { <<"y", "e", "s">>, <<" ", "Y", "E", "S", " ">>, <<"n", "o">>, <<"y">>,
      <<"y", "e", "s", "!">>, <<>> }

\* lines 45-48 and 67-68: the prompt and the answer
CleanupPrompt ==
    /\ cleanup.pc = "prompt"
    /\ \E typed \in Answers :
          \E choice \in {Lower(Strip(typed))} :
              cleanup' = [cleanup EXCEPT !.choice = choice,
                                         !.pc = IF confirmed(choice) THEN "delete_raw"
                                                ELSE "done",
                                         !.todo = IF confirmed(choice)
                                                  THEN cleanup.duplicate_ids ELSE <<>>]
    /\ UNCHANGED <<dbVars, loopVars, scriptVars, agentVars, profilerVars, investigatorVars,
                   heraldVars, cacheVars, gatewayVars, socketVars, broadcastVars, taskVars,
                   lookups, analyst_models, analyses>>

\* lines 50-55: one delete of raw_claims; a delete that raises is reported
\* and the loop goes on
CleanupDeleteRaw ==
    /\ cleanup.pc = "delete_raw"
    /\ \E ok \in BOOLEAN :
          /\ raw' = IF ok THEN Delete(raw, Head(cleanup.todo)) ELSE raw
          /\ cleanup' = [cleanup EXCEPT !.todo = Tail(cleanup.todo),
                                         !.raised = cleanup.raised \/ ~ok,
                                         !.pc = IF Tail(cleanup.todo) = <<>>
                                                THEN "select_verified" ELSE "delete_raw"]
    /\ UNCHANGED <<nextClaimId, verified, nextVerificationId, logs, events, loopVars,
                   scriptVars, agentVars, profilerVars, investigatorVars,
                   heraldVars, cacheVars, gatewayVars, socketVars, broadcastVars, taskVars,
                   lookups, analyst_models, analyses>>

\* lines 58-62: the select of verified_claims; the rows of the flagged claims
\* are those the loop deletes; a select that raises ends the clean-up
\* (lines 65-66)
CleanupSelectVerified ==
    /\ cleanup.pc = "select_verified"
    /\ \E ok \in BOOLEAN :
          \E ids \in {InOrder({v \in DOMAIN verified :
                                  \E i \in DOMAIN cleanup.duplicate_ids :
                                      verified[v].raw_claim_id = cleanup.duplicate_ids[i]})} :
              cleanup' = [cleanup EXCEPT !.verified_todo = IF ok THEN ids ELSE <<>>,
                                         !.raised = cleanup.raised \/ ~ok,
                                         !.pc = IF ok /\ ids # <<>> THEN "delete_verified"
                                                ELSE "done"]
    /\ UNCHANGED <<dbVars, loopVars, scriptVars, agentVars, profilerVars, investigatorVars,
                   heraldVars, cacheVars, gatewayVars, socketVars, broadcastVars, taskVars,
                   lookups, analyst_models, analyses>>

\* lines 62-66: one delete of verified_claims; a delete that raises ends the
\* loop
CleanupDeleteVerified ==
    /\ cleanup.pc = "delete_verified"
    /\ \E ok \in BOOLEAN :
          /\ verified' = IF ok THEN Delete(verified, Head(cleanup.verified_todo))
                          ELSE verified
          /\ cleanup' = [cleanup EXCEPT !.verified_todo = Tail(cleanup.verified_todo),
                                         !.raised = cleanup.raised \/ ~ok,
                                         !.pc = IF ok /\ Tail(cleanup.verified_todo) # <<>>
                                                THEN "delete_verified" ELSE "done"]
    /\ UNCHANGED <<raw, nextClaimId, nextVerificationId, logs, events, loopVars,
                   scriptVars, agentVars, profilerVars, investigatorVars,
                   heraldVars, cacheVars, gatewayVars, socketVars, broadcastVars, taskVars,
                   lookups, analyst_models, analyses>>

NextCleanup ==
    \/ CleanupSelect \/ CleanupPrompt \/ CleanupDeleteRaw
    \/ CleanupSelectVerified \/ CleanupDeleteVerified

(***************************************************************************)
(* InvestigatorAgent: construction and process_task                        *)
(* (src/backend/agents/investigator_agent.py)                              *)
(***************************************************************************)
MaxTasks == 3

\* a key given as argument or in the environment: None, empty, or a key
ApiKeys == {"None", "", "key"}
\* import google.generativeai, genai.configure and GenerativeModel
ConfigureOutcomes == {"ok", "ImportError", "Exception"}
Constructions == [gemini_api_key : ApiKeys, GEMINI_API_KEY : ApiKeys, configure : ConfigureOutcomes]

\* line 24: gemini_api_key or os.getenv("GEMINI_API_KEY")
ResolvedKey(c) ==
    IF c.gemini_api_key \in {"None", ""} THEN c.GEMINI_API_KEY ELSE c.gemini_api_key

InvestigatorAgent_init_unchecked(c) == ResolvedKey(c) # "None"
\* lines 22-41: the value of self.use_gemini when __init__ returns
InvestigatorAgent_init(c) ==
    IF ResolvedKey(c) # "None"
    THEN \* lines 28-39
         c.configure = "ok"
    ELSE FALSE

\* sample_case_file (line 172) and two more
TaskCaseFiles ==
    {[text_suspicion_score |-> F_0_95, source_credibility_score |-> F_0_1],
     [text_suspicion_score |-> F_0_2, source_credibility_score |-> F_0_8],
     EmptyDict}
TaskPayloads == {json_dumps(cf) : cf \in TaskCaseFiles} \cup {JsonCorrupt}

\* lines 124-158
process_task ==
    /\ tasks < MaxTasks
    /\ tasks' = tasks + 1
    /\ \E case_file_json \in TaskPayloads, response \in GeminiResponses :
          IF ~json_parses(case_file_json)
          THEN \* lines 139-142
               /\ task_result' = <<[case_file_json |-> case_file_json, response |-> response,
                                     outcome |-> Raise("ValueError")]>>
               /\ model_calls' = model_calls
          ELSE /\ task_result' =
                    <<[case_file_json |-> case_file_json, response |-> response,
                       outcome |-> Return(investigation_result(
                           Get(case_file_json.obj, "text_suspicion_score", F_0_5),
                           Get(case_file_json.obj, "source_credibility_score", F_0_5),
                           response))]>>
               /\ model_calls' = IF use_gemini THEN model_calls + 1 ELSE model_calls
    /\ UNCHANGED <<dbVars, loopVars, scriptVars, agentVars, profilerVars, investigatorVars,
                   heraldVars, cacheVars, gatewayVars, socketVars, broadcastVars, construction,
                   toolVars>>

(***************************************************************************)
(* Specifications                                                          *)
(***************************************************************************)
InitTables ==
    /\ raw = <<>>
    /\ nextClaimId = 1
    /\ verified = <<>>
    /\ nextVerificationId = 1
    /\ logs = <<>>
    /\ events = <<2>>

InitLoop ==
    /\ pc = "sleep"
    /\ batch = <<>>
    /\ step = "none"
    /\ failures = 0
    /\ cycleFailed = FALSE
    /\ startPending = {}

InitScript ==
    /\ rpc = "idle"
    /\ rbatch = <<>>
    /\ reprocessRuns = 0

InitAgent ==
    /\ agentBatch = <<>>
    /\ apc = "sleep"
    /\ discovered = <<>>
    /\ processed_claims = <<>>
    /\ routed = <<>>

InitProfilerIdle ==
    /\ metadata = QuakeMeta
    /\ score = <<>>

InitInvestigatorIdle ==
    /\ case_file = <<>>
    /\ investigation = <<>>

InitHeraldIdle ==
    /\ herald_report = <<>>
    /\ alert = <<>>

\* src/app.py lines 541-559: the client was created; no request answered yet
InitGatewayIdle ==
    /\ supabase_client = Client
    /\ http_response = <<>>

\* src/websocket_manager.py lines 19-21: no socket registered, no broadcast made
InitConnectionManager ==
    /\ active_connections = <<>>
    /\ nextSocket = 1
    /\ ws_handler = <<>>
    /\ bpc = "idle"
    /\ message = <<>>
    /\ snapshot = <<>>
    /\ pending = <<>>
    /\ sent = <<>>

\* the InvestigatorAgent of the system: constructed in the mode use_gemini
\* says, no task processed
InitTasksIdle ==
    /\ construction = <<>>
    /\ tasks = 0
    /\ model_calls = 0
    /\ task_result = <<>>

InitAnalystIdle ==
    /\ analyst_models = load_models("ok", "ok")
    /\ analyses = <<>>

InitToolsIdle(called) ==
    /\ lookups = <<>>
    /\ IF called # "analyst" THEN InitAnalystIdle ELSE TRUE
    /\ cleanup = CleanupIdle

\* a Redis server nobody has written to
RedisIdle == [db |-> <<>>, keyspace_hits |-> 0, keyspace_misses |-> 0]

\* line 26 and line 138: the global instance, nothing cached
InitCache ==
    /\ memory_cache = <<>>
    /\ use_redis = FALSE
    /\ redis_client = FALSE
    /\ redis = RedisIdle
    /\ calls = <<>>

\* the agents and utilities that are checked on their own, none of them called,
\* except the one named
InitUnits(called) ==
    /\ IF called # "investigator" THEN InitInvestigatorIdle ELSE TRUE
    /\ IF called # "herald" THEN InitHeraldIdle ELSE TRUE
    /\ IF called # "cache backend" THEN InitCache ELSE TRUE
    /\ IF called # "gateway" THEN InitGatewayIdle ELSE TRUE
    /\ InitConnectionManager
    /\ IF called # "tasks" THEN InitTasksIdle ELSE TRUE
    /\ InitToolsIdle(called)

\* the whole system on an empty datastore
Init ==
    /\ InitTables /\ InitLoop /\ InitScript /\ InitAgent /\ InitProfilerIdle
    /\ InitUnits("none")
    /\ models_loaded = TRUE
    /\ use_gemini \in BOOLEAN

\* the system whose Investigator has no model key
InitMock == Init /\ use_gemini = FALSE

\* the steps of a cycle when no datastore operation raises
NextPhases ==
    \/ Wake
    \/ DiscoveryInsert \/ DiscoveryCapped \/ DiscoveryLog
    \/ InitialQuery \/ InitialUpdate
    \/ FusionQuery \/ FusionUpdate \/ FusionLog
    \/ FinalQuery \/ FinalInsertVerified \/ FinalUpdate \/ FinalLog
    \/ ExpertQuery \/ ExpertInsertVerified \/ ExpertUpdate

NextLoop == NextPhases \/ DatastoreRaises

NextService == NextLoop \/ seed_demo_claim

\* the steps of CoordinatorAgent.start when nothing escapes run_cycle
NextAgentCycle == AgentRunCycle \/ AgentProcessClaim \/ AgentCapped \/ AgentEndCycle

Next ==
    \/ NextService
    \/ ReprocessQuery \/ ReprocessUpdate
    \/ NextAgentCycle
    \/ LoopRaises \/ Backoff \/ AgentLoopRaises \/ AgentBackoff

Spec == Init /\ [][Next]_vars

\* the gateway and the polling loop, without the maintenance script and
\* without the CoordinatorAgent
SpecService == InitMock /\ [][NextService]_vars

\* the polling loop alone
SpecLoop == InitMock /\ [][NextLoop]_vars

\* the polling loop as the event loop runs it: the task is resumed when its
\* sleep is over (lines 263, 537) and each statement runs to its end or
\* raises; the datastore raises at most MaxFailures times
SpecLoopFair == InitMock /\ [][NextLoop]_vars /\ WF_vars(NextPhases)

\* CoordinatorAgent.run_cycle, called again and again, with a scout whose
\* claims can be malformed, with or without a model key
NextRunCycle ==
    \/ AgentRunCycleInjected \/ AgentDiscoveryRaises
    \/ AgentProcessClaim \/ AgentCapped \/ AgentEndCycle

SpecRunCycle == Init /\ [][NextRunCycle]_vars

\* CoordinatorAgent.process_claim, called again and again
SpecProcessClaim == Init /\ [][ProcessClaimCall]_vars

\* one of the two coordinator loops has been called: coordinator_loop, which
\* returns at once when there is no datastore client (lines 244-246), or
\* CoordinatorAgent.start
InitStarted ==
    /\ InitTables /\ InitScript /\ InitProfilerIdle
    /\ InitUnits("gateway")
    /\ http_response = <<>>
    /\ batch = <<>> /\ step = "none" /\ failures = 0
    /\ cycleFailed = FALSE /\ startPending = {}
    /\ agentBatch = <<>>
    /\ discovered = <<>> /\ processed_claims = <<>>
    /\ routed = <<>>
    /\ models_loaded = TRUE
    /\ use_gemini = FALSE
    /\ \E called \in {"coordinator_loop", "CoordinatorAgent.start"} :
          /\ supabase_client \in
                (IF called = "coordinator_loop" THEN {Client, NoClient} ELSE {Client})
          /\ pc = IF called = "coordinator_loop" /\ supabase_client # NoClient
                  THEN "sleep" ELSE "off"
          /\ apc = IF called = "CoordinatorAgent.start" THEN "sleep" ELSE "off"

NextStarted ==
    \/ NextLoop \/ LoopRaises \/ Backoff
    \/ NextAgentCycle \/ AgentLoopRaises \/ AgentBackoff

\* the event loop resumes the task of the loop when its sleep is over, and
\* each statement of a cycle runs to its end or raises; operations raise at
\* most MaxFailures times
SpecStarted ==
    /\ InitStarted
    /\ [][NextStarted]_vars
    /\ WF_vars(NextPhases \/ Backoff)
    /\ WF_vars(NextAgentCycle \/ AgentBackoff)

\* the gateway, the polling loop on a datastore that does not raise, and the
\* reprocess_claim script
NextMaintenance == NextPhases \/ seed_demo_claim \/ ReprocessQuery \/ ReprocessUpdate

SpecMaintenance == InitMock /\ [][NextMaintenance]_vars

\* the polling loop and the CoordinatorAgent, its Investigator in either mode
NextAgents == NextLoop \/ NextAgentCycle

SpecAgents == Init /\ [][NextAgents]_vars

\* rows a datastore holds when the loop starts on it: a claim left in a pending
\* status by an earlier run
F_0_19999999999999998 == <<53687091, 53687090>>

StoredSuspicion == {F_0_1, F_0_19999999999999998, F_0_2, F_0_95}
StoredCredibility == {F_0_05, F_0_5, F_0_8, F_0_8000000000000002, F_1_0}

StoredDossiers ==
    { [wikipedia_summary |-> <<"N", "o", "t", " ", "s", "o">>, web_snippets |-> <<"s1">>],
      [wikipedia_summary |-> <<"F", "A", "L", "S", "E">>, web_snippets |-> <<"s1", "s2">>],
      [wikipedia_summary |-> <<"k", "n", "o", "t">>, web_snippets |-> <<"s1">>],
      [wikipedia_summary |-> <<"N", "o", "t", " ", "s", "o">>, web_snippets |-> <<>>],
      [wikipedia_summary |-> <<>>, web_snippets |-> <<"s1">>],
      [wikipedia_summary |-> <<"r", "o", "u", "n", "d">>, web_snippets |-> <<"s1", "s2">>],
      [wikipedia_summary |-> <<"n", "o", "t">>],
      [web_snippets |-> <<"s1">>],
      EmptyDict }

StoredRow(text, ts, sc, dossier, st) ==
    [event_id |-> 2,
     claim_text |-> text,
     source_metadata_json |-> JsonCorrupt,
     text_suspicion_score |-> ts,
     source_credibility_score |-> sc,
     research_dossier_json |-> dossier,
     status |-> st,
     via |-> "seed"]

StoredRows ==
    {StoredRow(text, ts, sc, JsonNull, "pending_fusion_decision") :
        text \in {FlatText, QuakeText}, ts \in StoredSuspicion, sc \in StoredCredibility}
    \cup
    {StoredRow(FlatText, F_0_95, F_0_5, dossier, "pending_final_decision") :
        dossier \in {json_dumps(d) : d \in StoredDossiers} \cup {JsonNull, JsonCorrupt}}
    \cup
    {StoredRow(FlatText, ts, sc, json_dumps(EmptyDict), "escalated_to_investigator") :
        ts \in StoredSuspicion, sc \in StoredCredibility}

InitStored ==
    /\ InitLoop /\ InitScript /\ InitAgent /\ InitProfilerIdle
    /\ models_loaded = TRUE
    /\ use_gemini = FALSE
    /\ InitUnits("none")
    /\ \E row \in StoredRows : raw = <<row>>
    /\ nextClaimId = 2
    /\ verified = <<>>
    /\ nextVerificationId = 1
    /\ logs = <<>>
    /\ events = <<2>>

\* the polling loop started on a datastore that holds one pending claim
SpecStored == InitStored /\ [][NextLoop]_vars

\* one call of the Source Profiler on any metadata
InitProfiler ==
    /\ InitTables /\ InitLoop /\ InitScript /\ InitAgent
    /\ models_loaded = TRUE
    /\ use_gemini = FALSE
    /\ InitUnits("none")
    /\ metadata \in Metadatas
    /\ score = <<>>

SpecProfiler == InitProfiler /\ [][ProfileSource]_vars

\* the mock analysis called once with any case file
InitSystemIdle ==
    /\ InitTables /\ InitLoop /\ InitScript /\ InitAgent /\ InitProfilerIdle
    /\ models_loaded = TRUE
    /\ use_gemini = FALSE

InitInvestigator ==
    /\ InitSystemIdle
    /\ InitUnits("investigator")
    /\ case_file \in CaseFiles
    /\ investigation = <<>>

SpecInvestigator == InitInvestigator /\ [][InvestigateWithMock]_vars

\* the Herald called once with any report
InitHerald ==
    /\ InitSystemIdle
    /\ InitUnits("herald")
    /\ herald_report \in Reports
    /\ alert = <<>>

SpecHerald == InitHerald /\ [][GenerateAlert]_vars

\* any sequence of calls of the global CacheManager
InitCacheManager ==
    /\ InitSystemIdle
    /\ InitUnits("cache")

SpecCache == InitCacheManager /\ [][NextCache]_vars

\* a CacheManager built with or without use_redis, against a server that
\* holds, under the key of "E", a value that is not JSON; the construction is
\* the first call
InitCacheBackend ==
    /\ InitSystemIdle
    /\ InitUnits("cache backend")
    /\ memory_cache = <<>>
    /\ \E requested \in BOOLEAN, attempt \in {"connected", "import_error", "ping_raises"} :
          /\ ~requested => attempt = "connected"
          /\ \E built \in {CacheManager_init(requested, attempt)} :
                /\ use_redis = built.use_redis
                /\ redis_client = built.redis_client
                /\ calls = <<[op |-> "__init__", claim_text |-> <<>>, result |-> None,
                              returned |-> None, raised |-> "",
                              backend |-> IF built.use_redis /\ built.redis_client
                                          THEN "redis" ELSE "memory",
                              store_raised |-> requested /\ attempt # "connected"]>>
    /\ redis = [RedisIdle EXCEPT !.db = (generate_cache_key(<<"E">>, "claim") :> JsonCorrupt)]

SpecCacheBackend == InitCacheBackend /\ [][NextCacheBackend]_vars

\* the global FactCheckDatabases instance, called again and again
InitFactCheck ==
    /\ InitSystemIdle
    /\ InitUnits("none")

SpecFactCheck == InitFactCheck /\ [][check_all_databases_call]_vars

\* an AnalystAgent built with artifacts that load or do not, given tasks
\* again and again
InitAnalyst ==
    /\ InitSystemIdle
    /\ InitUnits("analyst")
    /\ \E vectorizer_load \in LoadOutcomes, classifier_load \in LoadOutcomes :
          analyst_models = load_models(vectorizer_load, classifier_load)
    /\ analyses = <<>>

SpecAnalyst == InitAnalyst /\ [][analyze_task]_vars

\* the texts of the claims a datastore holds when the clean-up is run
CleanupTexts == {QuakeText, QuotedQuakeText, FlatText}

\* the verified_claims rows of the claims in ids, in order
RECURSIVE VerifiedOf(_)
VerifiedOf(ids) ==
    IF ids = <<>> THEN <<>>
    ELSE Append(VerifiedOf(SubSeq(ids, 1, Len(ids) - 1)),
                [raw_claim_id |-> ids[Len(ids)],
                 verification_status |-> "False",
                 explanation |-> "Wikipedia and web search results strongly contradict the claim"])

\* the clean-up run on a datastore that holds MaxClaims resolved claims, each
\* with or without its verified row, while the service is down
InitCleanup ==
    /\ InitLoop /\ InitScript /\ InitAgent /\ InitProfilerIdle
    /\ models_loaded = TRUE
    /\ use_gemini = FALSE
    /\ InitUnits("none")
    /\ \E texts \in [1..MaxClaims -> CleanupTexts] :
          raw = [c \in 1..MaxClaims |->
                   StoredRow(texts[c], F_0_95, F_0_5, JsonNull, "resolved_by_fusion")]
    /\ nextClaimId = MaxClaims + 1
    /\ \E resolved \in SUBSET (1..MaxClaims) :
          /\ verified = VerifiedOf(InOrder(resolved))
          /\ nextVerificationId = Cardinality(resolved) + 1
    /\ logs = <<>>
    /\ events = <<2>>

SpecCleanup == InitCleanup /\ [][NextCleanup]_vars

\* coordinator cycles beside a run of the clean-up script, on one datastore
NextIntegrity == NextRunCycle \/ NextCleanup

SpecIntegrity == Init /\ [][NextIntegrity]_vars

\* the gateway, with or without a datastore client, answering the dashboard
\* while the polling loop fills the tables
InitGateway ==
    /\ InitSystemIdle
    /\ InitUnits("gateway")
    /\ supabase_client \in {NoClient, Client}
    /\ http_response = <<>>

\* an InvestigatorAgent constructed in any way, then given tasks
InitInvestigatorAgent ==
    /\ InitTables /\ InitLoop /\ InitScript /\ InitAgent /\ InitProfilerIdle
    /\ models_loaded = TRUE
    /\ InitUnits("tasks")
    /\ construction \in Constructions
    /\ use_gemini = InvestigatorAgent_init(construction)
    /\ tasks = 0
    /\ model_calls = 0
    /\ task_result = <<>>

SpecInvestigatorAgent == InitInvestigatorAgent /\ [][process_task]_vars

\* the injection endpoint beside the polling loop, with or without a
\* datastore client and with no, one or two events
SeedEvents == {<<>>, <<2>>, <<5, 2>>}

InitSeed ==
    /\ InitLoop /\ InitScript /\ InitAgent /\ InitProfilerIdle
    /\ models_loaded = TRUE
    /\ use_gemini = FALSE
    /\ InitUnits("gateway")
    /\ raw = <<>>
    /\ nextClaimId = 1
    /\ verified = <<>>
    /\ nextVerificationId = 1
    /\ logs = <<>>
    /\ events \in SeedEvents
    /\ supabase_client \in {NoClient, Client}
    /\ http_response = <<>>

NextSeed == NextPhases \/ seed_demo_claim_request

SpecSeed == InitSeed /\ [][NextSeed]_vars

\* broadcasts while dashboards connect and go away
InitBroadcast ==
    /\ InitSystemIdle
    /\ InitUnits("none")

SpecBroadcast == InitBroadcast /\ [][NextBroadcast]_vars

NextGateway == NextPhases \/ get_updates \/ get_agent_status

SpecGateway == InitGateway /\ [][NextGateway]_vars

(***************************************************************************)
(* Source Profiler: range and value of the score                           *)
(***************************************************************************)
\* C9: for every source metadata, with any subset of its fields missing, the
\* value returned by calculate_source_score lies in [0.0, 1.0].
C9_ScoreInUnitInterval ==
    score # <<>> => FLe(F_0_0, score) /\ FLe(score, F_1_0)

\* a call whose adjustments add up to more than 1.0 has returned
C9_Witness ==
    score # <<>> /\ FGt(source_score_sum(metadata), F_1_0)

\* the doubles nearest to n/20, n = 0..20
Twentieth ==
    << <<13421772, 214748365>>, <<26843545, 161061274>>, <<40265318, 107374182>>,
       <<53687091, 53687092>>, <<67108864, 0>>, <<80530636, 214748364>>,
       <<93952409, 161061272>>, <<107374182, 107374184>>, <<120795955, 53687092>>,
       <<134217728, 0>>, <<147639500, 214748368>>, <<161061273, 161061272>>,
       <<174483046, 107374184>>, <<187904819, 53687088>>, <<201326592, 0>>,
       <<214748364, 214748368>>, <<228170137, 161061272>>, <<241591910, 107374184>>,
       <<255013683, 53687088>>, <<268435456, 0>> >>

Indicator(b) == IF b THEN 1 ELSE 0

\* the formula of the claim in exact arithmetic, in twentieths
FormulaTwentieths(md) ==
    LET age == Get(md, "account_age_days", 0)
        followers == Get(md, "followers", 0)
        following == Get(md, "following", 0)
        is_verified == Get(md, "is_verified", FALSE)
        total == 10 + 8 * Indicator(is_verified)
                    - 5 * Indicator(age < 30)
                    + 2 * Indicator(age > 365)
                    + 2 * Indicator(following > 0 /\ followers > 5 * following)
                    - 4 * Indicator(following > 0 /\ following > 10 * followers
                                      /\ followers < 1000)
                    + 2 * Indicator(followers > 1000000)
    IN  IF total < 0 THEN 0 ELSE IF total > 20 THEN 20 ELSE total

\* the double nearest to the formula's exact value
FormulaValue(md) ==
    IF FormulaTwentieths(md) = 0 THEN F_0_0 ELSE Twentieth[FormulaTwentieths(md)]

\* |a - b| <= 2^-52
FNear(a, b) ==
    /\ a[1] - b[1] \in {-1, 0, 1}
    /\ (a[1] - b[1]) * Limb + (a[2] - b[2]) \in -16..16

F_0_04999999999999999 == <<13421772, 214748364>>

\* C10 (as stated): the returned score is the value of the clamp formula, 1.0
\* for the credible example and 0.05 for the bot-like example.
C10_Original ==
    score # <<>> =>
        /\ score = FormulaValue(metadata)
        /\ metadata = WaterMeta => score = F_1_0
        /\ metadata = QuakeMeta => score = F_0_05

\* C10 (amended): the returned score is the clamp formula evaluated in binary64,
\* within 2^-52 of the formula's exact value; it is exactly 1.0 for the credible
\* example and 0.04999999999999999 (one unit below the double 0.05) for the
\* bot-like example; the mega-follower bonus is part of the formula whatever
\* the following count is.
C10_ScoreFollowsFormula ==
    score # <<>> =>
        /\ FNear(score, FormulaValue(metadata))
        /\ metadata = WaterMeta => score = F_1_0
        /\ metadata = QuakeMeta => score = F_0_04999999999999999

\* the mega-follower bonus has been applied to an account that follows nobody
C10_Witness ==
    /\ score = F_0_6
    /\ Get(metadata, "following", 0) = 0
    /\ Get(metadata, "followers", 0) > 1000000

(***************************************************************************)
(* Polling loop: verified_claims rows per raw claim                        *)
(***************************************************************************)
\* C1: in every state the polling loop reaches, with datastore writes allowed
\* to fail, each raw claim is referenced by at most one verified_claims row.
C1_AtMostOneVerifiedClaim ==
    \A v1, v2 \in DOMAIN verified :
        verified[v1].raw_claim_id = verified[v2].raw_claim_id => v1 = v2

(***************************************************************************)
(* Status order                                                            *)
(***************************************************************************)
\* position of a status in the order of the pipeline
StatusRank(st) ==
    CASE st = "pending_initial_analysis" -> 1
      [] st = "pending_fusion_decision" -> 2
      [] st \in {"archived", "pending_final_decision"} -> 3
      [] st \in {"resolved_by_fusion", "escalated_to_investigator"} -> 4
      [] st = "resolved_by_investigator" -> 5

TerminalStatuses == {"archived", "resolved_by_fusion", "resolved_by_investigator"}

\* the step is an update of the reprocess_claim script
IsReprocessStep == rpc = "updating" /\ rbatch' # rbatch

\* C2: every step of the polling loop and of the injection endpoint that
\* changes the status of a stored claim moves it to a later status and never
\* out of archived, resolved_by_fusion or resolved_by_investigator; a step of
\* the reprocess_claim script that changes a status changes it, on a matching
\* claim, to pending_initial_analysis.
C2_StatusMovesForward ==
    [][\A c \in DOMAIN raw :
         /\ c \in DOMAIN raw'
         /\ raw'[c].status # raw[c].status =>
               IF IsReprocessStep
               THEN /\ raw'[c].status = "pending_initial_analysis"
                    /\ MatchesEarthFlat(raw[c].claim_text)
               ELSE /\ raw[c].status \notin TerminalStatuses
                    /\ StatusRank(raw'[c].status) > StatusRank(raw[c].status)]_vars

\* a claim that had been resolved was reset by the script and has been moved
\* forward again by the loop
C2_Witness ==
    \E c \in DOMAIN raw :
        /\ \E v \in DOMAIN verified : verified[v].raw_claim_id = c
        /\ reprocessRuns > 0
        /\ raw[c].status = "pending_final_decision"

(***************************************************************************)
(* Fusion decision and final decision                                      *)
(***************************************************************************)
\* the fusion-decision phase performs its update on the first row of its query
FusionDecides == pc = "fusion" /\ step = "update" /\ step' = "log"

\* C3: the fusion-decision phase archives a claim in pending_fusion_decision
\* exactly when its text suspicion is below 0.2 and its source credibility is
\* above 0.8; for any other pair of scores, 0.2 and 0.8 included, it stores the
\* dossier returned by the research step and moves the claim to
\* pending_final_decision; no verified_claims row refers to an archived claim.
C3_FusionDecision ==
    [][/\ FusionDecides =>
            LET c == Head(batch).claim_id
                lowSuspicion == FLt(raw[c].text_suspicion_score, F_0_2)
                highCredibility == FGt(raw[c].source_credibility_score, F_0_8)
            IN  /\ raw[c].status = "pending_fusion_decision"
                /\ IF lowSuspicion /\ highCredibility
                   THEN /\ raw'[c].status = "archived"
                        /\ raw'[c].research_dossier_json = raw[c].research_dossier_json
                   ELSE /\ raw'[c].status = "pending_final_decision"
                        /\ raw'[c].research_dossier_json =
                               json_dumps(gather_evidence(raw[c].claim_text))
       /\ \A c \in DOMAIN raw' :
            raw'[c].status = "archived" =>
                \A v \in DOMAIN verified' : verified'[v].raw_claim_id # c]_vars

\* a claim just inside both thresholds has been archived
C3_Witness ==
    \E c \in DOMAIN raw :
        /\ raw[c].status = "archived"
        /\ raw[c].text_suspicion_score = F_0_19999999999999998
        /\ raw[c].source_credibility_score = F_0_8000000000000002
        /\ pc = "sleep"

\* the stored dossiers that are conclusive: a non-empty summary that contains
\* "not" or "false" in any case, and at least one web snippet
ConclusiveDossiers ==
    { [wikipedia_summary |-> <<"N", "o", "t", " ", "s", "o">>, web_snippets |-> <<"s1">>],
      [wikipedia_summary |-> <<"F", "A", "L", "S", "E">>, web_snippets |-> <<"s1", "s2">>],
      [wikipedia_summary |-> <<"k", "n", "o", "t">>, web_snippets |-> <<"s1">>] }

Conclusive(research_dossier_json) ==
    research_dossier_json \in {json_dumps(d) : d \in ConclusiveDossiers}

VerifiedFor(table, c) == {v \in DOMAIN table : table[v].raw_claim_id = c}

\* C4: in the final-decision phase a verified_claims row is inserted only for
\* a claim whose dossier is conclusive, with verification_status False; the
\* status update moves a claim with a conclusive dossier, after that insert,
\* to resolved_by_fusion, and any other claim, a NULL or unparseable dossier
\* included, to escalated_to_investigator without a verified_claims row
\* being written.
C4_FinalDecision ==
    [][pc = "final" /\ batch # <<>> =>
          LET c == Head(batch).claim_id
          IN  /\ verified' # verified =>
                    /\ Conclusive(raw[c].research_dossier_json)
                    /\ step = "insert_verified"
                    /\ \E v \in DOMAIN verified' \ DOMAIN verified :
                          /\ verified'[v].raw_claim_id = c
                          /\ verified'[v].verification_status = "False"
                          /\ DOMAIN verified' = DOMAIN verified \cup {v}
                    /\ raw' = raw
              /\ raw' # raw =>
                    /\ raw[c].status = "pending_final_decision"
                    /\ raw' = [raw EXCEPT ![c].status = raw'[c].status]
                    /\ IF Conclusive(raw[c].research_dossier_json)
                       THEN /\ raw'[c].status = "resolved_by_fusion"
                            /\ VerifiedFor(verified, c) # {}
                       ELSE /\ raw'[c].status = "escalated_to_investigator"
                            /\ VerifiedFor(verified, c) = {}]_vars

\* a claim whose summary says FALSE in capitals has been resolved by the
\* final decision
C4_Witness ==
    \E c \in DOMAIN raw :
        /\ raw[c].status = "resolved_by_fusion"
        /\ raw[c].research_dossier_json.kind = "json"
        /\ Get(raw[c].research_dossier_json.obj, "wikipedia_summary", <<>>)
                = <<"F", "A", "L", "S", "E">>
        /\ \E v \in VerifiedFor(verified, c) : verified[v].verification_status = "False"

(***************************************************************************)
(* Vocabulary of verification_status                                       *)
(***************************************************************************)
\* C5: every verified_claims row written by the final-decision phase, the
\* expert-consultation phase or CoordinatorAgent.save_claim_results has
\* verification_status True, False or Misleading, whatever the mode of the
\* Investigator and whatever the model answers.
C5_VerificationStatusVocabulary ==
    \A v \in DOMAIN verified :
        verified[v].verification_status \in {"True", "False", "Misleading"}

(***************************************************************************)
(* Injected claims                                                         *)
(***************************************************************************)
LaterStatuses ==
    {"pending_fusion_decision", "archived", "pending_final_decision",
     "resolved_by_fusion", "escalated_to_investigator", "resolved_by_investigator"}

\* the step is the last one of a cycle in which no datastore operation raised
CycleEndsClean == pc # "sleep" /\ pc' = "sleep" /\ ~cycleFailed /\ failures' = failures

\* C6: a row inserted by POST /seed-demo-claim has status
\* pending_initial_analysis; an injected claim that is in that status when a
\* cycle starts is, at the end of that cycle, archived or in a later status
\* of the pipeline, provided no datastore operation raised during the cycle.
C6_SeededClaimAdvances ==
    [][/\ \A c \in DOMAIN raw' \ DOMAIN raw :
            raw'[c].via = "seed" => raw'[c].status = "pending_initial_analysis"
       /\ CycleEndsClean =>
            \A c \in startPending :
                raw[c].via = "seed" => raw'[c].status \in LaterStatuses]_vars

\* an injected claim has gone through a whole cycle on a datastore that never
\* raised, and the loop sleeps again
C6_Witness ==
    /\ pc = "sleep"
    /\ failures = 0
    /\ \E c \in DOMAIN raw :
          /\ raw[c].via = "seed"
          /\ raw[c].status = "resolved_by_investigator"

(***************************************************************************)
(* System log and order of the phases                                      *)
(***************************************************************************)
\* C7: whenever a phase of the polling loop inserts a claim or changes the
\* status of a claim, the next operation of that phase, on the same claim, is
\* the system_logs insert.
C7_StatusChangeIsLogged ==
    [][(pc # "sleep" /\ raw' # raw) =>
          (pc' = pc /\ batch' = batch /\ step' = "log")]_vars

PhaseOrder == <<"sleep", "discovery", "initial", "fusion", "final", "expert">>

PhaseStatus(p) ==
    CASE p = "initial" -> "pending_initial_analysis"
      [] p = "fusion" -> "pending_fusion_decision"
      [] p = "final" -> "pending_final_decision"
      [] p = "expert" -> "escalated_to_investigator"

\* C8: the loop passes from one phase only to the next one in the order
\* discovery, initial analysis, fusion decision, final decision, expert
\* consultation; a phase is entered with its query still to be made, and the
\* query returns exactly the claims that are in the phase's status at that
\* moment, those advanced by the previous phase in the same cycle included.
C8_PhasesInOrder ==
    [][/\ pc' # pc =>
            /\ \E i \in 1..6 : pc = PhaseOrder[i] /\ pc' = PhaseOrder[(i % 6) + 1]
            /\ pc' \in {"initial", "fusion", "final", "expert"} =>
                    step' = "query" /\ batch' = <<>>
       /\ (pc \in {"initial", "fusion", "final", "expert"} /\ step = "query"
              /\ failures' = failures) =>
            /\ raw' = raw
            /\ LET found == {c \in DOMAIN raw : raw[c].status = PhaseStatus(pc)}
               IN  IF found = {} THEN pc' # pc
                   ELSE /\ pc' = pc
                        /\ {batch'[i].claim_id : i \in 1..Len(batch')} = found
                        /\ \A i \in 1..Len(batch') :
                              batch'[i].row = raw[batch'[i].claim_id]]_vars

\* the fusion decision is working on a claim that the initial analysis of the
\* same cycle has scored
C8_Witness ==
    /\ pc = "fusion" /\ step = "update"
    /\ Head(batch).claim_id \in startPending
    /\ raw[Head(batch).claim_id].status = "pending_fusion_decision"
(***************************************************************************)
(* C11  The Investigator's mock verdict                                    *)
(***************************************************************************)
CaseTextSuspicion == Get(case_file, "text_suspicion_score", F_0_5)
CaseSourceCredibility == Get(case_file, "source_credibility_score", F_0_5)
CaseIsNumeric == CaseTextSuspicion # None /\ CaseSourceCredibility # None
CaseIsFalse ==
    CaseIsNumeric /\ FGt(CaseTextSuspicion, F_0_8) /\ FLt(CaseSourceCredibility, F_0_3)
CaseIsTrue ==
    CaseIsNumeric /\ FLt(CaseTextSuspicion, F_0_3) /\ FGt(CaseSourceCredibility, F_0_7)
VerdictIs(result, verdict, confidence) ==
    /\ result.raised = ""
    /\ result.value.verdict = verdict
    /\ result.value.confidence = confidence

\* C11: on every case file whose scores are numbers or absent (absent = 0.5)
\* the mock returns False/0.9 when text suspicion > 0.8 and source
\* credibility < 0.3, True/0.8 when text suspicion < 0.3 and source
\* credibility > 0.7, and Misleading/0.6 in every other case; the two
\* conditions never hold together; and the gateway function and the class
\* method give the same outcome on every case file.
C11_MockVerdictTable ==
    investigation # <<>> =>
        LET by_function == investigation[1].by_function
            by_class == investigation[1].by_class
        IN  /\ by_function = by_class
            /\ ~(CaseIsFalse /\ CaseIsTrue)
            /\ CaseIsFalse => VerdictIs(by_function, "False", F_0_9)
            /\ CaseIsTrue => VerdictIs(by_function, "True", F_0_8)
            /\ CaseIsNumeric /\ ~CaseIsFalse /\ ~CaseIsTrue
                    => VerdictIs(by_function, "Misleading", F_0_6)

\* a case file without a text score and with a credibility of exactly 0.3
\* has been judged Misleading by both implementations
C11_Witness ==
    /\ investigation # <<>>
    /\ "text_suspicion_score" \notin DOMAIN case_file
    /\ "source_credibility_score" \in DOMAIN case_file
    /\ case_file["source_credibility_score"] = F_0_3
    /\ VerdictIs(investigation[1].by_class, "Misleading", F_0_6)
    /\ VerdictIs(investigation[1].by_function, "Misleading", F_0_6)

(***************************************************************************)
(* C12  The Herald's mock alert                                            *)
(***************************************************************************)
ReportVerdict == Get(herald_report, "verdict", "Misleading")
ReportConfidence == Get(herald_report, "confidence", F_0_5)
ReportReasoning == Get(herald_report, "reasoning", "No reasoning provided")

VerdictEmoji(verdict) ==
    IF verdict = "True" THEN GreenCircle
    ELSE IF verdict = "False" THEN RedCircle
    ELSE YellowCircle
VerdictTemplate(verdict) ==
    IF verdict = "True" THEN "This information has been verified as accurate."
    ELSE IF verdict = "False" THEN "This information has been confirmed as false."
    ELSE "This information may be misleading."

\* twice the distance between the integer n and the double p = <<whole, hi, lo>>
\* is at most one
IsNearestInteger(n, p) ==
    LET f == <<p[2], p[3]>>
    IN  \/ n = p[1] /\ FLe(f, Half)
        \/ n = p[1] + 1 /\ FLe(Half, f)

\* the percentages of the confidences the Investigator's mock returns and of
\* the documented example
DocumentedPercent(confidence) ==
    IF confidence = F_0_6 THEN "60"
    ELSE IF confidence = F_0_8 THEN "80"
    ELSE IF confidence = F_0_9 THEN "90"
    ELSE IF confidence = F_0_95 THEN "95"
    ELSE IF confidence = F_0_5 THEN "50"
    ELSE ""

\* C12: whenever the report's confidence is a number (absent = 0.5) the alert
\* is '<emoji> <sentence> <reasoning> Our confidence level is N%.': the
\* emoji is the green circle for True, the red circle for False and the
\* yellow circle for every other verdict, the sentence is the verdict's
\* template, the reasoning is the supplied one, and N is an integer nearest
\* to confidence*100 (60, 80, 90 and 95 for 0.6, 0.8, 0.9 and 0.95).
C12_HeraldAlertFormat ==
    alert # <<>> /\ ReportConfidence # None =>
        /\ alert[1].raised = ""
        /\ LET pieces == alert[1].value
           IN  /\ Len(pieces) = 9
               /\ pieces[1] = VerdictEmoji(ReportVerdict)
               /\ pieces[2] = " "
               /\ pieces[3] = VerdictTemplate(ReportVerdict)
               /\ pieces[4] = " "
               /\ pieces[5] = ReportReasoning
               /\ pieces[6] = " "
               /\ pieces[7] = "Our confidence level is "
               /\ \E n \in 0..100 :
                      /\ pieces[8] = ToString(n)
                      /\ IsNearestInteger(n, times_100(ReportConfidence))
               /\ DocumentedPercent(ReportConfidence) # ""
                      => pieces[8] = DocumentedPercent(ReportConfidence)
               /\ pieces[9] = "%."

\* the documented example: {False, 0.95, X} has produced the red circle, X and 95%
C12_Witness ==
    /\ alert # <<>>
    /\ herald_report = [verdict |-> "False", confidence |-> F_0_95, reasoning |-> "X"]
    /\ alert[1].raised = ""
    /\ alert[1].value[1] = RedCircle
    /\ alert[1].value[5] = "X"
    /\ alert[1].value[8] = "95"

(***************************************************************************)
(* C13  The cache reads back the latest value of the normalized text       *)
(***************************************************************************)
Normalized(text) == Strip(Lower(text))

\* call j cached a value under the normalized form of call i's text, and the
\* cache was not cleared between the two
CachedFor(i, j) ==
    /\ j < i
    /\ calls[j].op = "cache_claim_result"
    /\ Normalized(calls[j].claim_text) = Normalized(calls[i].claim_text)
    /\ \A k \in (j + 1)..(i - 1) : calls[k].op # "clear_cache"

\* C13: every check_similar_claim(t) returned the value of the latest
\* cache_claim_result, since the last clear_cache, whose text has the
\* lower-cased trimmed form of t, and None when there is no such call; so a
\* value is never read under a different normalized form.
C13_CacheReadsLatestOfNormalizedText ==
    \A i \in 1..Len(calls) :
        calls[i].op = "check_similar_claim" =>
            IF \E j \in 1..Len(calls) : CachedFor(i, j)
            THEN LET latest == CHOOSE j \in 1..Len(calls) :
                                   /\ CachedFor(i, j)
                                   /\ \A k \in 1..Len(calls) : CachedFor(i, k) => k <= j
                 IN  calls[i].returned = calls[latest].result
            ELSE calls[i].returned = None

\* "A" was cached, then " a " was cached with another value, and a check of
\* "A" returned the second value, while a check of "E" returned None
C13_Witness ==
    /\ Len(calls) = 4
    /\ calls[1].op = "cache_claim_result" /\ calls[1].claim_text = <<"A">>
    /\ calls[2].op = "cache_claim_result" /\ calls[2].claim_text = <<" ", "a", " ">>
    /\ calls[2].result # calls[1].result
    /\ calls[3].op = "check_similar_claim" /\ calls[3].claim_text = <<"A">>
    /\ calls[3].returned = calls[2].result
    /\ calls[4].op = "check_similar_claim" /\ calls[4].claim_text = <<"E">>
    /\ calls[4].returned = None

(***************************************************************************)
(* C14  The read endpoints answer a failure with an error object           *)
(***************************************************************************)
ReadEndpoints == {"GET /updates", "GET /agent-status"}

\* C14: whenever the handler of GET /updates or GET /agent-status ended with
\* the error object (the client is not initialized or the query raised), the
\* request is answered with that error object and nothing is raised.
C14_ReadEndpointsAnswerErrorObject ==
    \A i \in 1..Len(http_response) :
        http_response[i].endpoint \in ReadEndpoints /\ http_response[i].returned.kind = "dict" =>
            /\ http_response[i].raised = ""
            /\ http_response[i].body = http_response[i].returned

(***************************************************************************)
(* C15  A broadcast reaches every registered socket                        *)
(***************************************************************************)
SentTo == [i \in 1..Len(sent) |-> sent[i].connection]

\* the step is a send of the running broadcast that succeeded
SendSucceeds == bpc = "sending" /\ Len(sent') = Len(sent) + 1 /\ sent'[Len(sent')].ok
SendFails == bpc = "sending" /\ Len(sent') = Len(sent) + 1 /\ ~sent'[Len(sent')].ok

\* C15: a broadcast never raises; the sockets it has sent to followed by those
\* still to visit are exactly the sockets registered when it started, so when
\* it returns each of them was sent the serialized message exactly once; a
\* send that fails deregisters that socket and the broadcast goes on, and a
\* send that succeeds leaves the registered sockets as they are.
C15_BroadcastReachesEverySocket ==
    [][/\ bpc' # "raised"
       /\ bpc' \in {"sending", "returned"} => SentTo' \o pending' = snapshot'
       /\ bpc' = "returned" => pending' = <<>>
       /\ \A i \in 1..Len(sent') : sent'[i].text = json_dumps(message')
       /\ SendSucceeds => active_connections' = active_connections
       /\ SendFails =>
            /\ active_connections' = Remove(active_connections, sent'[Len(sent')].connection)
            /\ bpc' = "sending"]_vars

\* a broadcast over three sockets has returned: the send to the second one
\* failed, the third one was still sent the message, and only the second one
\* was deregistered
C15_Witness ==
    /\ bpc = "returned"
    /\ snapshot = <<1, 2, 3>>
    /\ Len(sent) = 3
    /\ sent[1].ok /\ ~sent[2].ok /\ sent[3].ok
    /\ active_connections = <<1, 3>>

(***************************************************************************)
(* C16  The Investigator's mode is fixed at construction                   *)
(***************************************************************************)
NoKeyOrConfigurationFailed ==
    ResolvedKey(construction) = "None" \/ construction.configure # "ok"

\* the step is a process_task call whose case file parsed
TaskAnalysed ==
    /\ tasks' = tasks + 1
    /\ task_result'[1].outcome.raised = ""
ModelFailed == task_result'[1].response \in {"not_json", "error"}
TaskCaseFile == task_result'[1].case_file_json.obj

SeedRequest ==
    /\ http_response' # <<>>
    /\ http_response'[1].endpoint = "POST /seed-demo-claim"
    /\ pc = "sleep" /\ pc' = "sleep"

SeedAnswer == http_response'[1].body

\* the step inserts exactly one raw claim, pending its initial analysis and
\* tagged with the first event
SeedInsertsOne ==
    /\ DOMAIN raw' = DOMAIN raw \cup {nextClaimId}
    /\ nextClaimId \notin DOMAIN raw
    /\ \A c \in DOMAIN raw : raw'[c] = raw[c]
    /\ raw'[nextClaimId].status = "pending_initial_analysis"
    /\ raw'[nextClaimId].event_id = events[1]

SeedSucceeds ==
    /\ SeedInsertsOne
    /\ Len(logs') = Len(logs) + 1
    /\ SeedAnswer.status = "success"
    /\ SeedAnswer.claim_id = nextClaimId

SeedRefuses ==
    /\ SeedAnswer.error # ""
    /\ raw' = raw
    /\ logs' = logs

PhaseRaises == pc # "sleep" /\ failures' = failures + 1

LoopPhases == {"discovery", "initial", "fusion", "final", "expert"}

\* the phases that come after p in a cycle
LaterPhases(p) ==
    {q \in LoopPhases :
        \E i, j \in 2..6 : i < j /\ PhaseOrder[i] = p /\ PhaseOrder[j] = q}

\* the claims a query of phase p finds
Found(p) == {c \in DOMAIN raw : raw[c].status = PhaseStatus(p)}

\* C18: when an operation of a phase raises, the cycle is not over: the loop
\* is still in that phase (discovery, whose handler is inside the for loop) or
\* enters the next phase with its query still to be made, and only a failure
\* of the last phase ends the cycle; in a cycle in which a phase has failed,
\* the query of every later phase returns all the claims in its status, and
\* the phase leaves none of them out: it is left only after the last claim it
\* found, unless one of its own operations raises.
C18_PhaseFailureDoesNotAbortCycle ==
    [][/\ PhaseRaises =>
            /\ pc' \in {pc} \cup LaterPhases(pc) \cup {"sleep"}
            /\ pc' = "sleep" => pc = "expert"
            /\ pc' # pc /\ pc' # "sleep" =>
                  /\ LaterPhases(pc) \ LaterPhases(pc') = {pc'}
                  /\ step' = "query"
       /\ (cycleFailed /\ ~PhaseRaises /\ pc \in LoopPhases \ {"discovery"}) =>
            IF step = "query"
            THEN IF Found(pc) = {} THEN pc' \in LaterPhases(pc) \cup {"sleep"}
                 ELSE /\ pc' = pc
                      /\ {batch'[i].claim_id : i \in 1..Len(batch')} = Found(pc)
            ELSE IF pc' = pc THEN batch' \in {batch, Tail(batch)}
                 ELSE Len(batch) = 1]_vars

\* the insert of the first discovered claim raised, and the fusion decision of
\* the same cycle is working on the two claims that were inserted after it
C18_Witness ==
    /\ cycleFailed /\ failures = 1
    /\ pc = "fusion" /\ step = "update"
    /\ Len(batch) = 2
    /\ raw[1].claim_text = WaterText

(***************************************************************************)
(* C19  Resuming after a failure                                           *)
(***************************************************************************)
QueryPhases == {"initial", "fusion", "final", "expert"}

\* the query of the phase the loop is in returns
QueryReturns == pc \in QueryPhases /\ step = "query" /\ ~PhaseRaises

\* C19: an operation that raises changes no row of raw_claims, so every
\* claim keeps the status of its last completed update; whenever the query of
\* a phase returns, in that cycle or a later one, it selects every claim that
\* is in the status of the phase, with the row as it was left; and, the loop
\* being resumed after every sleep and the operations raising only finitely
\* often, every claim of raw_claims eventually has the status archived,
\* resolved_by_fusion or resolved_by_investigator: again and again all the
\* rows of the table, which are never deleted, are in one of these statuses.
C19_FailedClaimsAreResumed ==
    /\ [][/\ PhaseRaises => raw' = raw
          /\ QueryReturns =>
                \A c \in DOMAIN raw :
                    raw[c].status = PhaseStatus(pc) =>
                        /\ pc' = pc
                        /\ \E i \in 1..Len(batch') :
                              batch'[i] = [row |-> raw[c], claim_id |-> c]]_vars
    /\ []<>(\A c \in DOMAIN raw : raw[c].status \in TerminalStatuses)

\* the update that follows the Investigator's verified_claims insert raised;
\* the claim kept the status escalated_to_investigator, was selected again in
\* a later cycle, and is resolved with two verified rows
C19_Witness ==
    /\ pc = "sleep" /\ failures = 1
    /\ \E c \in DOMAIN raw :
          /\ raw[c].status = "resolved_by_investigator"
          /\ Cardinality({v \in DOMAIN verified : verified[v].raw_claim_id = c}) = 2

(***************************************************************************)
(* C20  The loop never ends                                                *)
(***************************************************************************)
\* coordinator_loop returned at its client guard
NeverStarted == pc = "off" /\ apc = "off"

\* the loop is in its first phase: a cycle has just started
CycleStarted == pc = "discovery" \/ (apc = "cycle" /\ Len(agentBatch) = Len(scout_agent))

\* C20: a coordinator loop that has started (coordinator_loop past its client
\* guard, or CoordinatorAgent.start) is never over: no step ends it, an
\* exception raised outside the phase handlers takes it to the 5-second sleep,
\* from which it only goes to the 30-second sleep, and, the exceptions being
\* finitely many, a new cycle is started again and again.
C20_LoopNeverTerminates ==
    /\ [][/\ pc # "off" => pc' # "off"
          /\ apc # "off" => apc' # "off"
          /\ (pc = "sleep" /\ failures' = failures + 1) => pc' = "backoff"
          /\ (apc' # apc /\ failures' = failures + 1) => apc' = "backoff"
          /\ (pc = "backoff" /\ pc' # pc) => pc' = "sleep"
          /\ (apc = "backoff" /\ apc' # apc) => apc' = "sleep"]_vars
    /\ []<>(NeverStarted \/ CycleStarted)

\* the first cycle of coordinator_loop raised before its discovery phase; the
\* 5-second sleep and the 30-second sleep are over and the loop is inserting
\* the claims of a new cycle
C20_Witness ==
    /\ failures = 1
    /\ pc = "discovery" /\ step = "insert"
    /\ Len(batch) = 3
    /\ nextClaimId = 1

(***************************************************************************)
(* C21  run_cycle isolates the failure of a claim                           *)
(***************************************************************************)
\* run_cycle handles the first claim of those left
ClaimHandled ==
    /\ apc = "cycle" /\ agentBatch # <<>> /\ nextClaimId <= MaxClaims
    /\ agentBatch' = Tail(agentBatch)

\* the claim texts of a list of claims
Texts(list) == [i \in DOMAIN list |-> list[i].claim_text]

\* short is long with some of its members left out
RECURSIVE IsSubsequence(_, _)
IsSubsequence(short, long) ==
    IF short = <<>> THEN TRUE
    ELSE IF long = <<>> THEN FALSE
    ELSE IF Head(short) = Head(long) THEN IsSubsequence(Tail(short), Tail(long))
    ELSE IsSubsequence(short, Tail(long))

\* C21 as stated: a claim whose processing or whose saving failed (no
\* "processed" entry was logged for it) is omitted from the list run_cycle
\* returns.
C21_Original ==
    [][(ClaimHandled /\ logs' = logs) => processed_claims' = processed_claims]_vars

\* C21, amended: run_cycle isolates the failure of processing per claim. A
\* claim whose processing raises (its source_metadata_json is not JSON) is
\* omitted from the list and not saved; a claim is omitted only when nothing
\* was saved or logged for it; without a model key every well-formed claim is
\* appended, whether its save failed or not; in every case the cycle goes
\* on to the next claim, and the list, which run_cycle returns when no
\* claim is left, keeps the discovery order; when discover_claims raised
\* the list is empty and no claim is left.
C21_RunCycleIsolatesProcessingFailures ==
    /\ [][/\ ClaimHandled =>
                /\ apc' = "cycle"
                /\ ~json_parses(Head(agentBatch).source_metadata_json) =>
                        processed_claims' = processed_claims /\ raw' = raw
                /\ processed_claims' = processed_claims => raw' = raw /\ logs' = logs
                /\ processed_claims' # processed_claims =>
                        /\ Len(processed_claims') = Len(processed_claims) + 1
                        /\ SubSeq(processed_claims', 1, Len(processed_claims)) = processed_claims
                        /\ processed_claims'[Len(processed_claims')].claim_text
                              = Head(agentBatch).claim_text
                /\ (~use_gemini /\ json_parses(Head(agentBatch).source_metadata_json)) =>
                        processed_claims' # processed_claims
          /\ (apc = "cycle" /\ apc' = "sleep") => agentBatch = <<>>
          /\ (apc = "sleep" /\ apc' = "cycle" /\ failures' # failures) =>
                agentBatch' = <<>> /\ processed_claims' = <<>>]_vars
    /\ [](IsSubsequence(Texts(processed_claims), Texts(discovered)))

\* a cycle discovered a malformed claim between two well-formed ones; the
\* insert of the first one raised; run_cycle is about to return the first and
\* the third
C21_Witness ==
    /\ apc = "cycle" /\ agentBatch = <<>>
    /\ Len(discovered) = 3
    /\ ~json_parses(discovered[2].source_metadata_json)
    /\ Texts(processed_claims) = <<discovered[1].claim_text, discovered[3].claim_text>>
    /\ \A c \in DOMAIN raw : raw[c].claim_text # discovered[1].claim_text
    /\ \E c \in DOMAIN raw : raw[c].claim_text = discovered[3].claim_text

(***************************************************************************)
(* C22  process_claim archives or investigates                              *)
(***************************************************************************)
\* the scores are inside the thresholds, bounds included
WithinThresholds(claim_data) ==
    /\ FLe(claim_data.text_suspicion_score, F_0_3)
    /\ FLe(F_0_7, claim_data.source_credibility_score)

\* C22: process_claim archives a claim (status archived, no Research,
\* Investigator or Herald call, no investigation_result and no public_alert)
\* exactly when its text_suspicion_score is at most 0.3 and its
\* source_credibility_score is at least 0.7; otherwise evidence gathering,
\* investigation and alert generation run in that order after the analysis,
\* and the claim_data returned carries the research_dossier, the
\* investigation_result and the public_alert and no status. The call raises
\* only when the model's answer has no verdict, after the investigation.
C22_ArchiveOrInvestigate ==
    \A i \in DOMAIN routed :
        \E call \in {routed[i]} :
            /\ WithinThresholds(call.claim_data) <=>
                    call.stages = <<"analyst", "profiler">>
            /\ WithinThresholds(call.claim_data) =>
                    /\ ~call.outcome.raised
                    /\ call.outcome.data.status = "archived"
                    /\ DOMAIN call.outcome.data = DOMAIN call.claim_data \cup {"status"}
                    /\ \A k \in DOMAIN call.claim_data :
                          call.outcome.data[k] = call.claim_data[k]
            /\ ~WithinThresholds(call.claim_data) =>
                    /\ call.outcome.raised <=> (use_gemini /\ call.answer = "no_verdict")
                    /\ call.outcome.raised =>
                          call.stages = <<"analyst", "profiler", "research", "investigator">>
                    /\ ~call.outcome.raised =>
                          /\ call.stages = <<"analyst", "profiler", "research",
                                             "investigator", "herald">>
                          /\ DOMAIN call.outcome.data =
                                DOMAIN call.claim_data
                                    \cup {"research_dossier", "investigation_result",
                                          "public_alert"}
                          /\ "verdict" \in DOMAIN call.outcome.data.investigation_result
                          /\ call.outcome.data.public_alert =
                                herald_process_task(call.outcome.data.investigation_result)

\* a claim scored exactly 0.3 and 0.7 has been archived
C22_Witness ==
    /\ routed # <<>>
    /\ routed[1].claim_data.text_suspicion_score = F_0_3
    /\ routed[1].claim_data.source_credibility_score = F_0_7
    /\ routed[1].outcome.data.status = "archived"

\* a claim scored 0.30000000000000004 and 1.0 has been through the three
\* agents and carries its alert
C22_WitnessInvestigated ==
    /\ routed # <<>>
    /\ routed[1].claim_data.text_suspicion_score = F_0_30000000000000004
    /\ routed[1].claim_data.source_credibility_score = F_1_0
    /\ ~routed[1].outcome.raised
    /\ "public_alert" \in DOMAIN routed[1].outcome.data

(***************************************************************************)
(* C23  The cache operations are best-effort                               *)
(***************************************************************************)
\* what an operation returns when its store raised
StoreErrorAnswer(call) ==
    CASE call.op = "check_similar_claim" -> call.returned = None
      [] call.op \in {"cache_claim_result", "clear_cache"} -> call.returned = <<FALSE>>
      [] call.op = "get_cache_stats" ->
            call.returned.type = "redis" /\ "error" \in DOMAIN call.returned
      [] call.op = "__init__" -> call.backend = "memory"

\* C23: no operation of a CacheManager raises; an operation whose store
\* raised returned None (get, check_similar_claim), False (set,
\* cache_claim_result, clear_cache) or the stats map of the redis type with an
\* error; and every operation goes to the backend chosen at construction:
\* use_redis and redis_client never change, and a manager on Redis never
\* reads or writes the in-process map, whatever Redis raises.
C23_CacheIsBestEffort ==
    /\ [](\A i \in 1..Len(calls) :
            /\ calls[i].raised = ""
            /\ calls[i].store_raised => StoreErrorAnswer(calls[i])
            /\ calls[i].backend = calls[1].backend)
    /\ [][/\ use_redis' = use_redis
          /\ redis_client' = redis_client
          /\ (use_redis /\ redis_client) => memory_cache' = memory_cache
          /\ ~(use_redis /\ redis_client) => redis' = redis]_vars

\* a manager on Redis: a set raised and returned False, the stats raised and
\* came back with an error, and a later set went to Redis again
C23_Witness ==
    /\ Len(calls) = 4
    /\ calls[1].backend = "redis"
    /\ calls[2].op = "cache_claim_result" /\ calls[2].store_raised
    /\ calls[2].returned = <<FALSE>>
    /\ calls[3].op = "get_cache_stats" /\ calls[3].store_raised
    /\ calls[4].op = "cache_claim_result" /\ ~calls[4].store_raised
    /\ generate_cache_key(calls[4].claim_text, "claim") \in DOMAIN redis.db
    /\ generate_cache_key(calls[2].claim_text, "claim") \notin DOMAIN redis.db
    /\ memory_cache = <<>>

(***************************************************************************)
(* C24  The lifecycle of a dashboard socket                                 *)
(***************************************************************************)
\* the handler of a socket ends in this step
HandlerExits(w) ==
    /\ w \in DOMAIN ws_handler
    /\ ws_handler[w] # "exited"
    /\ ws_handler'[w] = "exited"

\* C24: under every interleaving of the /ws/dashboard handlers and the
\* broadcasts, a socket in active_connections is one whose accept succeeded
\* and whose handler has not exited, and it is there once; so a socket is
\* never registered before its accept is over, and a socket whose handler has
\* exited is not registered and is never registered again, even while a
\* broadcast that copied the list earlier still has it to visit. A handler
\* that exits leaves the list without its socket and otherwise as it was: the
\* disconnect of a socket that a broadcast has already removed changes
\* nothing. A handler is never resumed after its exit.
C24_SocketLifecycle ==
    /\ [](/\ \A i \in 1..Len(active_connections) :
                /\ active_connections[i] \in DOMAIN ws_handler
                /\ ws_handler[active_connections[i]] = "serving"
          /\ Cardinality(Registered(active_connections)) = Len(active_connections))
    /\ [][\A w \in DOMAIN ws_handler :
            /\ ws_handler[w] = "exited" =>
                    ws_handler'[w] = "exited" /\ w \notin Registered(active_connections')
            /\ HandlerExits(w) =>
                    active_connections' = Remove(active_connections, w)
            /\ (HandlerExits(w) /\ w \notin Registered(active_connections)) =>
                    active_connections' = active_connections
            /\ w \in Registered(active_connections') \ Registered(active_connections) =>
                    ws_handler[w] = "accepting"]_vars

\* a broadcast copied the list with socket 1 in it; a send to socket 1 failed
\* and removed it; the handler of socket 1 then exited, its disconnect
\* finding nothing to remove, and the handler of socket 2 exited while the
\* broadcast still had socket 2 to visit
C24_Witness ==
    /\ bpc = "sending"
    /\ snapshot = <<1, 2>>
    /\ pending = <<2>>
    /\ sent # <<>> /\ ~sent[1].ok
    /\ ws_handler[1] = "exited" /\ ws_handler[2] = "exited"
    /\ active_connections = <<>>

(***************************************************************************)
(* C25  The fact-check sources are consulted in order                       *)
(***************************************************************************)
SourceOrder == <<"google", "snopes", "politifact">>

\* the site did not answer with a page
NoPage(response) == response.kind = "raises" \/ response.status_code # 200

\* C25: check_all_databases never raises; the sources it consults are the
\* first one, two or three of structured API stub, first site, second site,
\* in that order; every source before the last one consulted returned no
\* match; when the last one consulted returned a match, that match is the
\* result, and otherwise all three were consulted and the result is None; a
\* site that raised or did not answer 200 returned no match, and after the
\* first site failed so the second site was still consulted.
C25_SourcesConsultedInOrder ==
    \A i \in DOMAIN lookups :
        \E call \in {lookups[i]} :
            \E outcome \in {call.outcome} :
                \E n \in {Len(outcome.consulted)} :
                    /\ outcome.raised = ""
                    /\ n \in 1..3
                    /\ outcome.consulted = SubSeq(SourceOrder, 1, n)
                    /\ \A k \in 1..(n - 1) : outcome.results[k] = None
                    /\ outcome.returned = outcome.results[n]
                    /\ outcome.results[n] = None => n = 3
                    /\ outcome.results[1] = None
                    /\ NoPage(call.snopes) => n = 3 /\ outcome.results[2] = None
                    /\ (n = 3 /\ NoPage(call.politifact)) => outcome.returned = None

\* the request to the first site raised, and the second site's page gave a
\* match, which was returned
C25_Witness ==
    /\ lookups # <<>>
    /\ lookups[1].snopes.kind = "raises"
    /\ lookups[1].outcome.returned # None
    /\ lookups[1].outcome.returned[1].source = "PolitiFact"
    /\ lookups[1].outcome.returned[1].verdict = "Misleading"

(***************************************************************************)
(* C26  The Analyst's neutral score                                         *)
(***************************************************************************)
\* both artifacts were loaded when the agent was built
BothLoaded ==
    analyst_models.vectorizer_load = "ok" /\ analyst_models.classifier_load = "ok"

\* C26: process_task raises ValueError when the payload has no claim_text
\* or an empty one, and raises nothing otherwise; when either artifact failed
\* to load at construction it returns the text_suspicion_score 0.5 without
\* an error; when both were loaded and the vectorization or the prediction
\* raises it returns 0.5 with the error; otherwise the score is the
\* classifier's. What was loaded at construction never changes.
C26_NeutralScoreWhenDegraded ==
    /\ [](\A i \in DOMAIN analyses :
            \E call \in {analyses[i]} :
                IF Get(call.task.payload, "claim_text", "") = ""
                THEN call.raised = "ValueError"
                ELSE /\ call.raised = ""
                     /\ call.returned.claim_text = call.task.payload.claim_text
                     /\ ~BothLoaded =>
                            /\ call.returned.text_suspicion_score = F_0_5
                            /\ "error" \notin DOMAIN call.returned
                     /\ (BothLoaded /\ call.prediction # "ok") =>
                            /\ call.returned.text_suspicion_score = F_0_5
                            /\ "error" \in DOMAIN call.returned
                     /\ (BothLoaded /\ call.prediction = "ok") =>
                            /\ call.returned.text_suspicion_score =
                                  predict_proba(call.task.payload.claim_text)
                            /\ "error" \notin DOMAIN call.returned)
    /\ [][analyst_models' = analyst_models]_vars

\* the vectorizer was loaded and the classifier was not; a task with a claim
\* text was given the score 0.5
C26_Witness ==
    /\ analyst_models.vectorizer_load = "ok"
    /\ analyst_models.classifier_load = "FileNotFoundError"
    /\ analyses # <<>>
    /\ analyses[1].raised = ""
    /\ analyses[1].returned.claim_text = TaxText
    /\ analyses[1].returned.text_suspicion_score = F_0_5

(***************************************************************************)
(* C27  What the clean-up deletes                                           *)
(***************************************************************************)
\* the claims of the table whose text holds a sample claim
Flagged(table) ==
    {c \in DOMAIN table :
        \E sample \in {QuakeText, WaterText, TaxText} : InText(sample, table[c].claim_text)}

\* the verified rows of the table that refer to one of the claims
Referring(table, claims) == {v \in DOMAIN table : table[v].raw_claim_id \in claims}

\* the rows of now are rows of before, as they were
RowsKept(now, before) ==
    /\ DOMAIN now \subseteq DOMAIN before
    /\ \A c \in DOMAIN now : now[c] = before[c]

\* C27: as long as the operator has not answered yes (also when no claim is
\* flagged, and for any other answer) raw_claims and verified_claims are as
\* the script found them; after a yes the only rows that go are flagged
\* raw_claims rows and verified_claims rows that refer to a flagged claim, no
\* row is changed, and when the script is over and no datastore call raised,
\* the rows that are gone are exactly all of those.
C27_CleanupDeletesTheSampleClaims ==
    cleanup.pc # "idle" =>
        /\ cleanup.choice # <<"y", "e", "s">> =>
                raw = cleanup.raw_before /\ verified = cleanup.verified_before
        /\ RowsKept(raw, cleanup.raw_before)
        /\ RowsKept(verified, cleanup.verified_before)
        /\ DOMAIN cleanup.raw_before \ DOMAIN raw \subseteq Flagged(cleanup.raw_before)
        /\ DOMAIN cleanup.verified_before \ DOMAIN verified
              \subseteq Referring(cleanup.verified_before, Flagged(cleanup.raw_before))
        /\ (cleanup.pc = "done" /\ cleanup.choice = <<"y", "e", "s">> /\ ~cleanup.raised) =>
              /\ DOMAIN raw = DOMAIN cleanup.raw_before \ Flagged(cleanup.raw_before)
              /\ DOMAIN verified =
                    DOMAIN cleanup.verified_before
                        \ Referring(cleanup.verified_before, Flagged(cleanup.raw_before))

\* the script is over after a yes: the claim that quotes a sample claim and
\* its verified row are gone, the other claim and its verified row are there
C27_Witness ==
    /\ cleanup.pc = "done" /\ cleanup.choice = <<"y", "e", "s">> /\ ~cleanup.raised
    /\ cleanup.raw_before[1].claim_text = QuotedQuakeText
    /\ cleanup.raw_before[2].claim_text = FlatText
    /\ DOMAIN cleanup.verified_before = {1, 2}
    /\ DOMAIN raw = {2}
    /\ DOMAIN verified = {2}

(***************************************************************************)
(* C28  Vocabulary of the status of a raw claim                             *)
(***************************************************************************)
\* C28: every raw_claims row holds a status of the state machine's
\* vocabulary, whichever writer inserted or updated it.
C28_RawStatusVocabulary == \A c \in DOMAIN raw : raw[c].status \in Statuses

(***************************************************************************)
(* C29  The injection endpoint is all-or-nothing                            *)
(***************************************************************************)
\* C29: a POST /seed-demo-claim request that answers an error object leaves
\* raw_claims as it was.
C29_SeedErrorInsertsNothing ==
    [][(SeedRequest /\ SeedAnswer.error # "") => raw' = raw]_vars

(***************************************************************************)
(* C30  Every verdict refers to a raw claim                                 *)
(***************************************************************************)
\* C30: every verified_claims row's raw_claim_id is the id of a raw_claims
\* row of the datastore.
C30_VerdictsReferToRawClaims ==
    \A v \in DOMAIN verified : verified[v].raw_claim_id \in DOMAIN raw
====
